---- MODULE Spec2Model ----
(***************************************************************************)
(* Model of the photo gallery client: the view-state controller of         *)
(* src/js/app.js (filter, sort, pagination, URL synchronisation,           *)
(* incremental rendering) and the collage packer of the variant embedded   *)
(* in src/README.md (layoutCollagePacked).                                 *)
(*                                                                         *)
(* JavaScript strings that are parsed or assembled (URL parameter values,  *)
(* tag names) are sequences of one-character strings, so that split, trim, *)
(* toUpperCase, parseInt and join are computed character by character.     *)
(***************************************************************************)
EXTENDS Integers, Sequences, FiniteSets, TLC

VARIABLES
    pc,              \* position of init(): "loading", "loaded", "applied", "ready", "failed"
    url,             \* window.location.search as a map key -> value (or NoParam)
    allPhotos,       \* let allPhotos
    tagList,         \* names of the tag checkboxes built by buildTagUI, in order
    tagCounts,       \* let tagCounts: the entries name -> count, in insertion order
    checked,         \* names of the tag checkboxes that are checked
    selectedTags,    \* let selectedTags (a JS Set: insertion-ordered, no duplicates)
    filterMode,      \* let filterMode
    sortValue,       \* sortSelect.value
    page,            \* let page
    viewPhotos,      \* let viewPhotos
    tiles,           \* children of gridEl, in document order
    detached,        \* indices of tiles removed from the grid whose image is still loading
    renderedCount,   \* let renderedCount
    isInitializing,  \* let isInitializing
    statusText,      \* statusEl.textContent
    loadMoreShown,   \* loadMoreBtn.style.display # "none"
    urlState,        \* const urlState of init()
    ev,              \* the last event handled (history)
    viewShared,      \* whether viewPhotos and allPhotos are one array object
    layoutRaf,       \* let layoutRaf: 0 or the handle of the pending request
    rafQueue,        \* the animation-frame callbacks waiting for the next frame
    framePasses,     \* layout passes run by the most recent frame (history)
    rafCalls,        \* calls of scheduleLayout since the last frame (history)
    frameCalls,      \* calls of scheduleLayout the most recent frame answered (history)
    lbIndex,         \* let lbIndex
    lbHidden,        \* whether #lightbox has the class "hidden"
    lbSrc,           \* lbImg.src: the photo displayed, NoPhoto for ""
    lbMeta,          \* the position line of lbMeta: "k / n"
    cw,              \* gridEl.clientWidth seen by the layout pass
    passTiles,       \* aspect ratios of the tiles of the layout pass, in order
    skyline,         \* let skyline of layoutCollagePacked
    rects,           \* rectangles written to tile.style so far in the pass
    prevRects,       \* rectangles the pass before this one had written to tile.style
    maxBottom,       \* let maxBottom of layoutCollagePacked
    gridHeight,      \* gridEl.style.height
    lpc,             \* position of the layout pass: "idle", "placing", "done"
    fnArr,           \* the array handed to applyFilter or sortPhotos
    fnCall,          \* which of the two is called, with selectedTags and the mode
    fnOut,           \* the array returned
    fnDone           \* whether the call has returned

ctlVars == <<pc, url, allPhotos, tagList, tagCounts, checked, selectedTags, filterMode,
             sortValue, page, viewPhotos, tiles, detached, renderedCount, isInitializing,
             statusText, loadMoreShown, urlState, ev, viewShared>>

rafVars == <<layoutRaf, rafQueue, framePasses, rafCalls, frameCalls>>

lbVars == <<lbIndex, lbHidden, lbSrc, lbMeta>>

packVars == <<cw, passTiles, skyline, rects, prevRects, maxBottom, gridHeight, lpc>>

fnVars == <<fnArr, fnCall, fnOut, fnDone>>

\* what the handlers of the controller leave alone
besidesCtl == <<packVars, fnVars, lbVars>>

\* what a layout pass leaves alone
besidesPack == <<ctlVars, fnVars, rafVars, lbVars>>

\* what a call of applyFilter or sortPhotos on its own leaves alone
besidesFn == <<ctlVars, packVars, rafVars, lbVars>>

vars == <<pc, url, allPhotos, tagList, tagCounts, checked, selectedTags, filterMode,
          sortValue, page, viewPhotos, tiles, detached, renderedCount, isInitializing,
          statusText, loadMoreShown, urlState, ev, viewShared,
          layoutRaf, rafQueue, framePasses, rafCalls, frameCalls, lbIndex, lbHidden, lbSrc, lbMeta,
          cw, passTiles, skyline, rects, prevRects, maxBottom, gridHeight, lpc,
          fnArr, fnCall, fnOut, fnDone>>

-----------------------------------------------------------------------------
(* Bounds of the model *)

\* number of photos of the large photo document (more than two pages)
NPhotos == 130

\* the random sort draws from a generator seeded with one of 0..MaxSeed
MaxSeed == 1

\* calls of scheduleLayout between two frames are counted up to MaxCalls
MaxCalls == 2

-----------------------------------------------------------------------------
(* Strings *)

Min(a, b) == IF a < b THEN a ELSE b

Max(a, b) == IF a > b THEN a ELSE b

Abs(a) == IF a < 0 THEN -a ELSE a

LowerChars == <<"a","b","c","d","e","f","g","h","i","j","k","l","m",
                "n","o","p","q","r","s","t","u","v","w","x","y","z">>

UpperChars == <<"A","B","C","D","E","F","G","H","I","J","K","L","M",
                "N","O","P","Q","R","S","T","U","V","W","X","Y","Z">>

DigitChars == <<"0","1","2","3","4","5","6","7","8","9">>

\* String.prototype.toUpperCase on one character
UpperChar(c) ==
    IF \E i \in 1..Len(LowerChars) : LowerChars[i] = c
    THEN UpperChars[CHOOSE i \in 1..Len(LowerChars) : LowerChars[i] = c]
    ELSE c

toUpperCase(s) == [i \in 1..Len(s) |-> UpperChar(s[i])]

IsSpace(c) == c = " "

IsDigit(c) == \E i \in 1..Len(DigitChars) : DigitChars[i] = c

DigitVal(c) == (CHOOSE i \in 1..Len(DigitChars) : DigitChars[i] = c) - 1

RECURSIVE TrimLeft(_)
TrimLeft(s) ==
    IF s # <<>> /\ IsSpace(Head(s)) THEN TrimLeft(Tail(s)) ELSE s

RECURSIVE TrimRight(_)
TrimRight(s) ==
    IF s # <<>> /\ IsSpace(s[Len(s)]) THEN TrimRight(SubSeq(s, 1, Len(s) - 1)) ELSE s

\* String.prototype.trim
trim(s) == TrimRight(TrimLeft(s))

\* String.prototype.split(sep): the pieces between separators, "" included
RECURSIVE SplitFrom(_, _, _)
SplitFrom(s, sep, cur) ==
    IF s = <<>> THEN <<cur>>
    ELSE IF Head(s) = sep THEN <<cur>> \o SplitFrom(Tail(s), sep, <<>>)
    ELSE SplitFrom(Tail(s), sep, Append(cur, Head(s)))

split(s, sep) == SplitFrom(s, sep, <<>>)

\* Array.prototype.join(sep)
RECURSIVE join(_, _)
join(arr, sep) ==
    IF arr = <<>> THEN <<>>
    ELSE IF Len(arr) = 1 THEN arr[1]
    ELSE arr[1] \o <<sep>> \o join(Tail(arr), sep)

\* String(n) for an integer n
RECURSIVE NatToString(_)
NatToString(n) ==
    IF n < 10 THEN <<DigitChars[n + 1]>>
    ELSE Append(NatToString(n \div 10), DigitChars[(n % 10) + 1])

String(n) == IF n < 0 THEN <<"-">> \o NatToString(-n) ELSE NatToString(n)

\* a JavaScript number: an integer, or NaN
Num(n) == [nan |-> FALSE, v |-> n]

NaN == [nan |-> TRUE, v |-> 0]

RECURSIVE DigitsValue(_, _)
DigitsValue(s, acc) ==
    IF s # <<>> /\ IsDigit(Head(s))
    THEN DigitsValue(Tail(s), 10 * acc + DigitVal(Head(s)))
    ELSE acc

\* parseInt(s, 10): leading whitespace skipped, an optional sign, then the
\* longest run of digits; NaN when there is no digit
parseInt(s) ==
    LET t == TrimLeft(s)
        neg == t # <<>> /\ Head(t) = "-"
        u == IF t # <<>> /\ Head(t) \in {"-", "+"} THEN Tail(t) ELSE t
    IN  IF u = <<>> \/ ~IsDigit(Head(u)) THEN NaN
        ELSE IF neg THEN Num(-DigitsValue(u, 0)) ELSE Num(DigitsValue(u, 0))

RemoveDup(arr) ==
    SelectSeq([i \in 1..Len(arr) |->
                  IF \E j \in 1..(i - 1) : arr[j] = arr[i] THEN <<"dup">> ELSE <<"keep", arr[i]>>],
              LAMBDA e : e[1] = "keep")

\* new Set(arr): the distinct elements in order of first occurrence
NewSet(arr) == LET k == RemoveDup(arr) IN [i \in 1..Len(k) |-> k[i][2]]

Range(f) == {f[i] : i \in DOMAIN f}

\* the string literals of the program
S_AND == <<"A","N","D">>

S_OR == <<"O","R">>

S_date_desc == <<"d","a","t","e","_","d","e","s","c">>

S_date_asc == <<"d","a","t","e","_","a","s","c">>

S_random == <<"r","a","n","d","o","m">>

-----------------------------------------------------------------------------
(* The photo document and the tag document *)

TagA == <<"a">>

TagB == <<"b">>

TagZ == <<"z">>

TagUpperA == <<"A">>

\* a tag with the name of a property every object inherits
TagCtor == <<"c","o","n","s","t","r","u","c","t","o","r">>

\* exif.dateTaken: absent, a string Date.parse rejects, or a string Date.parse
\* reads as the timestamp t
NoDate == [kind |-> "absent", t |-> 0]

BadDate == [kind |-> "unparseable", t |-> 0]

DateAt(n) == [kind |-> "date", t |-> n]

\* Records with missing or malformed fields are the photos
\* 20000 + 1000 t + 100 a + 10 e + m. tags (t): absent, an array, a string,
\* a number other than 0. paths (a): absent, an object without thumb and
\* display, an object with both. exif (e): absent, an object without
\* dateTaken, an object with a date. meta (m): absent, an object without
\* title, an object with a title.
TagsKind(p) == <<"absent", "array", "string", "number">>[((p \div 1000) % 10) + 1]

PathsKind(p) == <<"absent", "empty", "full">>[((p \div 100) % 10) + 1]

ExifKind(p) == <<"absent", "empty", "dated">>[((p \div 10) % 10) + 1]

MetaKind(p) == <<"absent", "empty", "titled">>[(p % 10) + 1]

RecordPhotos ==
    {20000 + 1000 * t + 100 * a + 10 * e + m : t \in 0..3, a \in 0..2, e \in 0..2, m \in 0..2}

\* the members of new Set(photo.tags || []) for a record photo: the array is
\* ["a"], the string is "ab", whose members are its characters
RecordTags(p) ==
    IF TagsKind(p) = "array" THEN <<TagA>>
    ELSE IF TagsKind(p) = "string" THEN <<TagA, TagB>>
    ELSE <<>>

\* Photos are named by numbers. 1..NPhotos are the photos of the large
\* document; 1001..1005 those of the five-photo document; 1006 is a photo
\* tagged "A", 1007 a photo whose tag list names "a" twice, 1008 a photo
\* tagged "constructor".
PhotoTags(p) ==
    IF p >= 20000 THEN RecordTags(p)
    ELSE IF p = 1001 THEN <<TagA>>
    ELSE IF p = 1006 THEN <<TagUpperA>>
    ELSE IF p = 1007 THEN <<TagA, TagA>>
    ELSE IF p = 1008 THEN <<TagCtor>>
    ELSE IF p = 1002 THEN <<TagA, TagB>>
    ELSE IF p = 1003 THEN <<TagB>>
    ELSE IF p = 1004 THEN <<>>
    ELSE IF p = 1005 THEN <<TagA, TagB>>
    ELSE (IF p % 2 = 0 THEN <<TagA>> ELSE <<>>) \o (IF p % 3 = 0 THEN <<TagB>> ELSE <<>>)

PhotoDate(p) ==
    IF p >= 20000 THEN (IF ExifKind(p) = "dated" THEN DateAt(1) ELSE NoDate)
    ELSE IF p > 1000 THEN DateAt((((p - 1000) * 3) % 5) + 1)
    ELSE IF p % 5 = 0 THEN NoDate
    ELSE IF p % 7 = 0 THEN BadDate
    ELSE DateAt(1 + ((p * 3) % 4))

LargeDoc == [i \in 1..NPhotos |-> i]

ExampleDoc == <<1001, 1002, 1003, 1004, 1005>>

EmptyDoc == <<>>

PhotoDocs == {LargeDoc, ExampleDoc, EmptyDoc}

\* Date.parse: NaN for a string that is not a date
DateParse(d) == IF d.kind = "date" THEN Num(d.t) ELSE NaN

\* a timestamp or null
Null == [null |-> TRUE, t |-> 0]

\* the variant that gives a photo without a readable date a late timestamp
parseDateTaken_late(p) ==
    LET dt == PhotoDate(p) IN
    IF dt.kind = "date" THEN [null |-> FALSE, t |-> dt.t] ELSE [null |-> FALSE, t |-> 9]

parseDateTaken(p) ==
    LET dt == PhotoDate(p) IN
    IF dt.kind = "absent" THEN Null
    ELSE LET t == DateParse(dt) IN IF t.nan THEN Null ELSE [null |-> FALSE, t |-> t.v]

-----------------------------------------------------------------------------
(* Filter and sort *)

\* the variant that looks at the first selected tag only
hasAllTags_first(photo, tags) ==
    Len(tags) = 0 \/ tags[1] \in Range(PhotoTags(photo))

hasAllTags(photo, tags) ==
    \A i \in 1..Len(tags) : tags[i] \in Range(PhotoTags(photo))

\* the variant that finds no tag
hasAnyTag_never(photo, tags) == FALSE

hasAnyTag(photo, tags) ==
    \E i \in 1..Len(tags) : tags[i] \in Range(PhotoTags(photo))

applyFilter(arr, selected, mode) ==
    IF Len(selected) = 0 THEN arr
    ELSE IF mode = S_AND
         THEN SelectSeq(arr, LAMBDA p : hasAllTags(p, selected))
         ELSE SelectSeq(arr, LAMBDA p : hasAnyTag(p, selected))

\* the random sort's generator: Math.random() is State/16, and the next state
RandNext(s) == (5 * s + 3) % 16

\* Math.floor(Math.random() * n)
RandIndex(s, n) == (s * n) \div 16

\* the variant that copies copy[j] to copy[i] without the exchange
ShuffleTurn_overwrite(st, i) ==
    LET j == RandIndex(st.s, i + 1)
    IN  [copy |-> [st.copy EXCEPT ![i + 1] = st.copy[j + 1]], s |-> RandNext(st.s)]

\* one turn of the shuffle's loop, for 0-based i; the sequence is 1-based
ShuffleTurn(st, i) ==
    LET j == RandIndex(st.s, i + 1)
    IN  [copy |-> [st.copy EXCEPT ![i + 1] = st.copy[j + 1], ![j + 1] = st.copy[i + 1]],
         s |-> RandNext(st.s)]

\* the turns i = hi, hi - 1, ..., lo of the loop, in that order. The run is
\* halved, and the first half is evaluated (its test) before the second starts,
\* so that the evaluation nests no deeper than the logarithm of the run's length.
RECURSIVE ShuffleTurns(_, _, _)
ShuffleTurns(st, hi, lo) ==
    IF hi < lo THEN st
    ELSE IF hi = lo THEN ShuffleTurn(st, hi)
    ELSE LET mid == (hi + lo) \div 2
             first == ShuffleTurns(st, hi, mid + 1)
         IN  IF first.s >= 0 THEN ShuffleTurns(first, mid, lo) ELSE first

\* for (let i = copy.length - 1; i > 0; i--) { ... }
ShuffleLoop(copy, s) == ShuffleTurns([copy |-> copy, s |-> s], Len(copy) - 1, 1).copy

\* the variant that compares as for date_asc whatever the mode
Compare_ascending(a, b, mode) ==
    LET pa == parseDateTaken(a)
        pb == parseDateTaken(b)
    IN  (IF pa.null THEN 0 ELSE pa.t) - (IF pb.null THEN 0 ELSE pb.t)

\* the comparator handed to Array.prototype.sort
Compare(a, b, mode) ==
    LET pa == parseDateTaken(a)
        pb == parseDateTaken(b)
        ta == IF pa.null THEN 0 ELSE pa.t
        tb == IF pb.null THEN 0 ELSE pb.t
    IN  IF mode = S_date_asc THEN ta - tb ELSE tb - ta

\* Array.prototype.sort is a stable sort: a merge sort that takes the left
\* element unless the comparator puts the right one strictly first
MergeTurn(st, l, r, mode) ==
    IF st.j > Len(r) \/ (st.i <= Len(l) /\ Compare(l[st.i], r[st.j], mode) <= 0)
    THEN [i |-> st.i + 1, j |-> st.j, out |-> Append(st.out, l[st.i])]
    ELSE [i |-> st.i, j |-> st.j + 1, out |-> Append(st.out, r[st.j])]

\* n turns of the merge (the run is halved, as for the shuffle)
RECURSIVE MergeTurns(_, _, _, _, _)
MergeTurns(st, n, l, r, mode) ==
    IF n = 0 THEN st
    ELSE IF n = 1 THEN MergeTurn(st, l, r, mode)
    ELSE LET first == MergeTurns(st, n \div 2, l, r, mode)
         IN  IF first.i >= 0 THEN MergeTurns(first, n - (n \div 2), l, r, mode) ELSE first

Merge(l, r, mode) ==
    MergeTurns([i |-> 1, j |-> 1, out |-> <<>>], Len(l) + Len(r), l, r, mode).out

RECURSIVE StableSort(_, _)
StableSort(arr, mode) ==
    IF Len(arr) <= 1 THEN arr
    ELSE LET h == Len(arr) \div 2
         IN  Merge(StableSort(SubSeq(arr, 1, h), mode),
                   StableSort(SubSeq(arr, h + 1, Len(arr)), mode), mode)

\* seed: the state of Math.random when the call is made
sortPhotos(arr, mode, seed) ==
    IF mode = S_random
    THEN ShuffleLoop(arr, seed)
    ELSE StableSort(arr, mode)

\* applyFilter returns the array it was given when no tag is selected, and
\* the new array of Array.prototype.filter otherwise
filterShares(selected) == Len(selected) = 0

\* the variant that sorts the array it was given
sortShares_inPlace(argShared) == argShared

\* sortPhotos works on const copy = [...arr]: the array it returns is never
\* the array it was given
sortShares(argShared) == FALSE

-----------------------------------------------------------------------------
(* The tag index and the tag controls *)

\* rank of a character in code-unit order, for the characters of the model
CharOrder == <<" ", ",">> \o DigitChars \o UpperChars \o <<"_">> \o LowerChars

CharRank(c) == CHOOSE i \in 1..Len(CharOrder) : CharOrder[i] = c

RECURSIVE StrLess(_, _)
StrLess(a, b) ==
    IF b = <<>> THEN FALSE
    ELSE IF a = <<>> THEN TRUE
    ELSE IF Head(a) = Head(b) THEN StrLess(Tail(a), Tail(b))
    ELSE CharRank(Head(a)) < CharRank(Head(b))

\* the distinct tag names of the photos, in order of first occurrence
RECURSIVE TagsOfRange(_, _, _)
TagsOfRange(arr, lo, hi) ==
    IF lo > hi THEN <<>>
    ELSE IF lo = hi THEN PhotoTags(arr[lo])
    ELSE LET mid == (lo + hi) \div 2
         IN  TagsOfRange(arr, lo, mid) \o TagsOfRange(arr, mid + 1, hi)

TagNamesOf(arr) == NewSet(TagsOfRange(arr, 1, Len(arr)))

\* a count of the tag index: the number n, or the string that is the text of
\* a function followed by n digits 1
CountNum(n) == [num |-> TRUE, v |-> n]

CountStr(n) == [num |-> FALSE, v |-> n]

\* the names for which counts[t] of const counts = {} is a property inherited
\* from Object.prototype, among the tag names of the model
InheritedKeys == {TagCtor}

\* counts[t] after the loops of the fallback: (counts[t] || 0) + 1 once per
\* occurrence of t. For an inherited name the first value read is a function,
\* and + 1 appends "1" to its text
CountTag(arr, t) ==
    LET k == Len(SelectSeq(TagsOfRange(arr, 1, Len(arr)), LAMBDA x : x = t))
    IN  IF t \in InheritedKeys THEN CountStr(k) ELSE CountNum(k)

\* a sequence of distinct elements put in the order of the total order Before
SortBy(arr, Before(_, _)) ==
    [i \in 1..Len(arr) |->
        CHOOSE e \in Range(arr) : Cardinality({f \in Range(arr) : Before(f, e)}) = i - 1]

\* the fallback of init(): counts derived from the photos, sorted by name
DerivedTagIndex(arr) ==
    LET names == SortBy(TagNamesOf(arr), StrLess)
    IN  [i \in 1..Len(names) |-> [name |-> names[i], count |-> CountTag(arr, names[i])]]

\* a tags.json written before the photos last changed: its counts are stale
StoredTagIndex ==
    <<[name |-> TagA, count |-> CountNum(2)], [name |-> TagB, count |-> CountNum(5)]>>

\* (b.count ?? 0) - (a.count ?? 0) || String(a.name).localeCompare(String(b.name)):
\* the difference is NaN, and so falsy, when a count is not a number
TagBefore(a, b) ==
    IF a.count.num /\ b.count.num
    THEN \/ a.count.v > b.count.v
         \/ a.count.v = b.count.v /\ StrLess(a.name, b.name)
    ELSE StrLess(a.name, b.name)

\* buildTagUI: one checkbox per entry, by count descending, then by name
buildTagUI(tagIndex) ==
    LET sorted == SortBy(tagIndex, TagBefore)
    IN  [i \in 1..Len(sorted) |-> sorted[i].name]

-----------------------------------------------------------------------------
(* URL state *)

\* a query parameter: absent, or present with a value
NoParam == [has |-> FALSE, v |-> <<>>]

Param(str) == [has |-> TRUE, v |-> str]

\* sp.get(key) || dflt: an absent key reads null, and "" is falsy too
GetOr(param, dflt) == IF param.has /\ param.v # <<>> THEN param.v ELSE dflt

getUrlState(u) ==
    LET tagsRaw == GetOr(u.tags, <<>>)
        parts == split(tagsRaw, ",")
        trimmed == [i \in 1..Len(parts) |-> trim(parts[i])]
        tags == SelectSeq(trimmed, LAMBDA t : t # <<>>)
        mode == IF toUpperCase(GetOr(u.mode, S_AND)) = S_OR THEN S_OR ELSE S_AND
        sort == GetOr(u.sort, S_date_desc)
        pageParam == parseInt(GetOr(u.page, <<"1">>))
        p == IF ~pageParam.nan /\ pageParam.v > 0 THEN pageParam.v ELSE 1
    IN  [tags |-> tags, mode |-> mode, sort |-> sort, page |-> p]

\* the variant that leaves the page key as it was
setUrlState_keepsPage(u, selected, mode, sortv, p) ==
    [u EXCEPT !.tags = IF Len(selected) > 0 THEN Param(join(selected, ",")) ELSE NoParam,
              !.mode = Param(mode),
              !.sort = Param(sortv)]

setUrlState(u, selected, mode, sortv, p) ==
    [u EXCEPT !.tags = IF Len(selected) > 0 THEN Param(join(selected, ",")) ELSE NoParam,
              !.mode = Param(mode),
              !.sort = Param(sortv),
              !.page = Param(String(p))]

\* the options of the sort selector
SortOptions == {S_date_desc, S_date_asc, S_random}

\* sortSelect.value = v: the option with that value becomes the selected one;
\* when there is none, no option is selected and the value reads ""
SelectValue(v) == IF v \in SortOptions THEN v ELSE <<>>

-----------------------------------------------------------------------------
(* Rendering *)

PAGE_SIZE == 60

\* tile.dataset.ar is naturalWidth / naturalHeight, kept here as the fraction
Ar(n, d) == [num |-> n, den |-> d]

\* tile.dataset.ar = "1.5"
PlaceholderAr == Ar(3, 2)

\* the tiles whose image load is followed, by their place in the grid: the
\* first two of page one and the first of page two
LoadTiles == {1, 2, PAGE_SIZE + 1}

\* gridEl.innerHTML = "" removes the tiles from the grid; the "load" listeners
\* of their images stay. The indices of the removed tiles whose image has not
\* loaded yet
Pending(grid) == {grid[k].index : k \in {j \in LoadTiles : j <= Len(grid) /\ ~grid[j].loaded}}

\* the variant whose click listeners share one index, the last of the view list
NewTile_lastIndex(view, i) ==
    [index |-> i, photo |-> view[i + 1], opens |-> Len(view) - 1, fresh |-> TRUE,
     ar |-> PlaceholderAr, loaded |-> FALSE]

\* the tile made by one turn of render's loop, for 0-based index i
NewTile(view, i) ==
    [index |-> i, photo |-> view[i + 1], opens |-> i, fresh |-> TRUE,
     ar |-> PlaceholderAr, loaded |-> FALSE]

\* the variant that gives the tiles in the grid the placeholder again
Kept_placeholder(grid) ==
    [k \in 1..Len(grid) |-> [grid[k] EXCEPT !.fresh = FALSE, !.ar = PlaceholderAr]]

\* tiles that were already in the grid when a handler started
Kept(grid) == [k \in 1..Len(grid) |-> [grid[k] EXCEPT !.fresh = FALSE]]

StatusOf(total, target) ==
    IF total = 0 THEN [msg |-> "No photos match your filter.", k |-> 0, n |-> 0]
    ELSE [msg |-> "Showing K of N", k |-> target, n |-> total]

\* the variant whose loop starts at 0 on every call
render_fromZero(view, p, rc, grid) ==
    LET total == Len(view)
        target == Min(total, p * PAGE_SIZE)
        start == IF rc > target THEN <<>> ELSE Kept(grid)
        added == [k \in 1..target |-> NewTile(view, k - 1)]
    IN  [tiles |-> start \o added,
         renderedCount |-> target,
         status |-> StatusOf(total, target),
         loadMore |-> target < total]

\* render(), on the view list, the page, renderedCount and the grid's children
render(view, p, rc, grid) ==
    LET total == Len(view)
        target == Min(total, p * PAGE_SIZE)
        from == IF rc > target THEN 0 ELSE rc
        start == IF rc > target THEN <<>> ELSE Kept(grid)
        added == [k \in 1..(target - from) |-> NewTile(view, from + k - 1)]
    IN  [tiles |-> start \o added,
         renderedCount |-> target,
         status |-> StatusOf(total, target),
         loadMore |-> target < total]

\* requestAnimationFrame(callback): the callback waits for the next frame; the
\* handle returned is a positive integer
requestAnimationFrame(queue) ==
    [queue |-> Append(queue, "layout"), handle |-> Len(queue) + 1]

\* the variant without the test of layoutRaf
scheduleLayout_unguarded(raf, queue) ==
    LET r == requestAnimationFrame(queue)
    IN  [layoutRaf |-> r.handle, rafQueue |-> r.queue]

\* scheduleLayout(): if (layoutRaf) return; layoutRaf = requestAnimationFrame(...)
scheduleLayout(raf, queue) ==
    IF raf # 0
    THEN [layoutRaf |-> raf, rafQueue |-> queue]
    ELSE LET r == requestAnimationFrame(queue)
         IN  [layoutRaf |-> r.handle, rafQueue |-> r.queue]

\* a call of scheduleLayout() by a handler
ScheduleLayout ==
    LET s == scheduleLayout(layoutRaf, rafQueue)
    IN  /\ layoutRaf' = s.layoutRaf
        /\ rafQueue' = s.rafQueue
        /\ rafCalls' = Min(rafCalls + 1, MaxCalls)
        /\ UNCHANGED <<framePasses, frameCalls>>

\* the variant that resets the page whatever the option
rebuildPage_always1(preservePage, p) == 1

\* the variant that never resets the page
rebuildPage_keeps(preservePage, p) == p

\* rebuildView: if (!preservePage) page = 1
rebuildPage(preservePage, p) == IF ~preservePage THEN 1 ELSE p

\* the body of rebuildView({preservePage}) up to render(), after the handler's
\* own assignments (primed); seed is the state of Math.random at the call
rebuildCore(preservePage, seed) ==
    /\ page' = rebuildPage(preservePage, page)
    /\ viewPhotos' = sortPhotos(applyFilter(allPhotos, selectedTags', filterMode'),
                                sortValue', seed)
    /\ viewShared' = sortShares(filterShares(selectedTags'))
    /\ allPhotos' = IF viewShared' THEN viewPhotos' ELSE allPhotos
    /\ LET r == render(viewPhotos', page', 0, <<>>)
       IN  /\ tiles' = r.tiles
           /\ renderedCount' = r.renderedCount
           /\ statusText' = r.status
           /\ loadMoreShown' = r.loadMore
    /\ detached' = detached \cup Pending(tiles)
    /\ ScheduleLayout

\* the last line of rebuildView: if (!isInitializing) setUrlState()
rebuildUrl(u) ==
    IF ~isInitializing'
    THEN setUrlState(u, selectedTags', filterMode', sortValue', page')
    ELSE u

rebuildView(preservePage, seed) ==
    /\ rebuildCore(preservePage, seed)
    /\ url' = rebuildUrl(url)

\* Math.random is read by the random sort only
Seeds(sortv) == IF sortv = S_random THEN 0..MaxSeed ELSE {0}

-----------------------------------------------------------------------------
(* Initial state: the page has loaded, init() has issued its two requests *)

UrlTags == {NoParam, Param(<<"a">>), Param(<<"a", ",", "b">>),
            Param(<<" ", "b", " ", ",", ",", "a", ",", "b">>), Param(<<"z">>)}

UrlModes == {NoParam, Param(<<"O","R">>), Param(<<"o","r">>), Param(<<"x","o","r">>)}

UrlSorts == {NoParam, Param(S_date_asc), Param(S_random), Param(<<"f","o","o">>)}

UrlPages == {NoParam, Param(<<"2">>), Param(<<"3">>), Param(<<"0">>),
             Param(<<"-","1">>), Param(<<"2","x">>), Param(<<"x","2">>)}

Urls == [tags : UrlTags, mode : UrlModes, sort : UrlSorts, page : UrlPages]

Event(op, hit) == [op |-> op, hit |-> hit]

\* the value of urlState while init() has not read the URL or has returned
NoUrlState == [tags |-> <<>>, mode |-> <<>>, sort |-> <<>>, page |-> 0]

PackIdle ==
    /\ cw = 0
    /\ passTiles = <<>>
    /\ skyline = <<>>
    /\ rects = <<>>
    /\ prevRects = <<>>
    /\ maxBottom = 0
    /\ gridHeight = 0
    /\ lpc = "idle"

\* no call of applyFilter or sortPhotos on its own
NoCall == [op |-> "none", selected |-> <<>>, mode |-> <<>>]

FnIdle ==
    /\ fnArr = <<>>
    /\ fnCall = NoCall
    /\ fnOut = <<>>
    /\ fnDone = FALSE

\* the module state of app.js when the script has been evaluated
CtlLoading ==
    /\ pc = "loading"
    /\ allPhotos = <<>>
    /\ tagList = <<>>
    /\ tagCounts = <<>>
    /\ checked = {}
    /\ selectedTags = <<>>
    /\ filterMode = S_AND
    /\ sortValue = S_date_desc
    /\ page = 1
    /\ viewPhotos = <<>>
    /\ tiles = <<>>
    /\ detached = {}
    /\ renderedCount = 0
    /\ isInitializing = TRUE
    /\ statusText = [msg |-> "", k |-> 0, n |-> 0]
    /\ loadMoreShown = TRUE
    /\ urlState = NoUrlState
    /\ ev = Event("load", FALSE)
    /\ viewShared = FALSE

\* let layoutRaf = 0, and no frame has been requested
RafIdle ==
    /\ layoutRaf = 0
    /\ rafQueue = <<>>
    /\ framePasses = 0
    /\ rafCalls = 0
    /\ frameCalls = 0

\* no photo
NoPhoto == 0

\* the position line of the lightbox, "k / n"
PositionLine(k, n) == [k |-> k, n |-> n]

\* let lbIndex = -1; the lightbox of the page starts hidden and empty
LbClosed ==
    /\ lbIndex = -1
    /\ lbHidden = TRUE
    /\ lbSrc = NoPhoto
    /\ lbMeta = PositionLine(0, 0)

\* the URL without a query
NoQuery == [tags |-> NoParam, mode |-> NoParam, sort |-> NoParam, page |-> NoParam]

Init ==
    /\ CtlLoading
    /\ url \in Urls
    /\ RafIdle
    /\ LbClosed
    /\ PackIdle
    /\ FnIdle

-----------------------------------------------------------------------------
(* init() *)

\* the photo request fails or answers with a non-success status
InitFail ==
    /\ pc = "loading"
    /\ pc' = "failed"
    /\ statusText' = [msg |-> "Failed to load gallery data.", k |-> 0, n |-> 0]
    /\ ev' = Event("initFail", FALSE)
    /\ UNCHANGED <<url, allPhotos, tagList, tagCounts, checked, selectedTags, filterMode,
                   sortValue, page, viewPhotos, tiles, detached, renderedCount,
                   isInitializing, loadMoreShown, urlState, viewShared>>
    /\ UNCHANGED rafVars
    /\ UNCHANGED besidesCtl

\* the photo request succeeds and the tag request answers OK with a body that
\* is not a tag index (not JSON, or null): tagsRes.json() or tagIndex.tags
\* throws, and init's catch writes the message
InitTagsFail ==
    /\ pc = "loading"
    /\ \E doc \in PhotoDocs : allPhotos' = doc
    /\ pc' = "failed"
    /\ statusText' = [msg |-> "Failed to load gallery data.", k |-> 0, n |-> 0]
    /\ ev' = Event("initTagsFail", FALSE)
    /\ UNCHANGED <<url, tagList, tagCounts, checked, selectedTags, filterMode,
                   sortValue, page, viewPhotos, tiles, detached, renderedCount,
                   isInitializing, loadMoreShown, urlState, viewShared>>
    /\ UNCHANGED rafVars
    /\ UNCHANGED besidesCtl

\* both requests are answered, the photo document being one of docs: the
\* photos are stored and the tag controls built. tagsOk: the tag request
\* answered OK with a tag index; otherwise it failed or answered non-OK, and
\* the index is derived from the photos
InitLoadFrom(docs) ==
    /\ pc = "loading"
    /\ \E doc \in docs, tagsOk \in BOOLEAN :
          /\ allPhotos' = doc
          /\ tagCounts' = IF tagsOk THEN StoredTagIndex ELSE DerivedTagIndex(doc)
          /\ tagList' = buildTagUI(tagCounts')
          /\ checked' = {t \in Range(tagList') : t \in Range(selectedTags)}
          /\ ev' = Event("initLoad", tagsOk)
    /\ pc' = "loaded"
    /\ UNCHANGED <<url, selectedTags, filterMode, sortValue, page, viewPhotos,
                   tiles, detached, renderedCount, isInitializing, statusText,
                   loadMoreShown, urlState, viewShared>>
    /\ UNCHANGED rafVars
    /\ UNCHANGED besidesCtl

InitLoad == InitLoadFrom(PhotoDocs)

\* the variant that does not apply the page of the URL
InitApplyUrl_skipsPage ==
    /\ pc = "loaded"
    /\ urlState' = getUrlState(url)
    /\ sortValue' = SelectValue(urlState'.sort)
    /\ filterMode' = urlState'.mode
    /\ selectedTags' = NewSet(urlState'.tags)
    /\ checked' = {t \in Range(tagList) : t \in Range(selectedTags')}
    /\ page' = page
    /\ pc' = "applied"
    /\ ev' = Event("initApply", FALSE)
    /\ UNCHANGED <<url, allPhotos, tagList, tagCounts, viewPhotos, tiles, detached, renderedCount,
                   isInitializing, statusText, loadMoreShown, viewShared>>
    /\ UNCHANGED rafVars
    /\ UNCHANGED besidesCtl

\* const urlState = getUrlState() and the four "Apply" blocks
InitApplyUrl ==
    /\ pc = "loaded"
    /\ urlState' = getUrlState(url)
    /\ sortValue' = SelectValue(urlState'.sort)
    /\ filterMode' = urlState'.mode
    /\ selectedTags' = NewSet(urlState'.tags)
    /\ checked' = {t \in Range(tagList) : t \in Range(selectedTags')}
    /\ page' = urlState'.page
    /\ pc' = "applied"
    /\ ev' = Event("initApply", FALSE)
    /\ UNCHANGED <<url, allPhotos, tagList, tagCounts, viewPhotos, tiles, detached, renderedCount,
                   isInitializing, statusText, loadMoreShown, viewShared>>
    /\ UNCHANGED rafVars
    /\ UNCHANGED besidesCtl

\* isInitializing = false; rebuildView({ preservePage: true }); setUrlState()
InitFinish ==
    /\ pc = "applied"
    /\ isInitializing' = FALSE
    /\ UNCHANGED <<tagList, tagCounts, checked, selectedTags, filterMode, sortValue>>
    /\ urlState' = NoUrlState
    /\ \E seed \in Seeds(sortValue) : rebuildCore(TRUE, seed)
    /\ url' = setUrlState(rebuildUrl(url), selectedTags', filterMode', sortValue', page')
    /\ pc' = "ready"
    /\ ev' = Event("init", FALSE)
    /\ UNCHANGED besidesCtl

-----------------------------------------------------------------------------
(* Event handlers, installed by init() *)

\* Set.prototype.add and Set.prototype.delete
SetAdd(set, e) == IF e \in Range(set) THEN set ELSE Append(set, e)

SetDelete(set, e) == SelectSeq(set, LAMBDA x : x # e)

\* the user operates the checkbox of tag t: "change" fires with it flipped
ToggleTag(t) ==
    /\ pc = "ready"
    /\ checked' = IF t \in checked THEN checked \ {t} ELSE checked \cup {t}
    /\ selectedTags' = IF t \in checked' THEN SetAdd(selectedTags, t)
                       ELSE SetDelete(selectedTags, t)
    /\ UNCHANGED <<pc, tagList, tagCounts, filterMode, sortValue, isInitializing, urlState>>
    /\ \E seed \in Seeds(sortValue) : rebuildView(FALSE, seed)
    /\ ev' = Event("toggleTag", FALSE)
    /\ UNCHANGED besidesCtl

\* clearTagsBtn "click"
ClearTags ==
    /\ pc = "ready"
    /\ selectedTags' = <<>>
    /\ checked' = {}
    /\ UNCHANGED <<pc, tagList, tagCounts, filterMode, sortValue, isInitializing, urlState>>
    /\ \E seed \in Seeds(sortValue) : rebuildView(FALSE, seed)
    /\ ev' = Event("clearTags", FALSE)
    /\ UNCHANGED besidesCtl

\* modeAndBtn and modeOrBtn "click"
SetMatchMode(mode) ==
    /\ pc = "ready"
    /\ filterMode' = mode
    /\ UNCHANGED <<pc, tagList, tagCounts, checked, selectedTags, sortValue,
                   isInitializing, urlState>>
    /\ \E seed \in Seeds(sortValue) : rebuildView(FALSE, seed)
    /\ ev' = Event("setMatchMode", FALSE)
    /\ UNCHANGED besidesCtl

\* sortSelect "change": the user has picked another option; rebuildView gets
\* the event object, whose preservePage is undefined
SetSortMode(option) ==
    /\ pc = "ready"
    /\ option # sortValue
    /\ sortValue' = option
    /\ UNCHANGED <<pc, tagList, tagCounts, checked, selectedTags, filterMode,
                   isInitializing, urlState>>
    /\ \E seed \in Seeds(option) : rebuildView(FALSE, seed)
    /\ ev' = Event("setSortMode", FALSE)
    /\ UNCHANGED besidesCtl

\* the variant that adds two
nextPage_plus2(p) == p + 2

\* page += 1
nextPage(p) == p + 1

\* page += 1; render(); if (!isInitializing) setUrlState()
advancePage ==
    /\ page' = nextPage(page)
    /\ LET r == render(viewPhotos, page', renderedCount, tiles)
       IN  /\ tiles' = r.tiles
           /\ renderedCount' = r.renderedCount
           /\ statusText' = r.status
           /\ loadMoreShown' = r.loadMore
    /\ ScheduleLayout
    /\ UNCHANGED detached
    /\ url' = IF ~isInitializing
              THEN setUrlState(url, selectedTags, filterMode, sortValue, page')
              ELSE url

\* the variant without the test
moreToShow_always(showing, total) == TRUE

\* the test of the observer callback: if (showing < total)
moreToShow(showing, total) == showing < total

\* the variant without the test of isIntersecting
SentinelCallback_always(hit) ==
    /\ pc = "ready"
    /\ LET total == Len(viewPhotos)
           showing == Min(total, page * PAGE_SIZE)
       IN  IF moreToShow(showing, total)
           THEN advancePage
           ELSE UNCHANGED <<page, tiles, detached, renderedCount, statusText, loadMoreShown, url,
                            rafVars>>
    /\ ev' = Event("sentinel", hit)
    /\ UNCHANGED <<pc, allPhotos, tagList, tagCounts, checked, selectedTags, filterMode,
                   sortValue, viewPhotos, isInitializing, urlState, viewShared>>
    /\ UNCHANGED besidesCtl

\* the IntersectionObserver callback, with entries[0].isIntersecting = hit
SentinelCallback(hit) ==
    /\ pc = "ready"
    /\ LET total == Len(viewPhotos)
           showing == Min(total, page * PAGE_SIZE)
       IN  IF hit /\ moreToShow(showing, total)
           THEN advancePage
           ELSE UNCHANGED <<page, tiles, detached, renderedCount, statusText, loadMoreShown, url,
                            rafVars>>
    /\ ev' = Event("sentinel", hit)
    /\ UNCHANGED <<pc, allPhotos, tagList, tagCounts, checked, selectedTags, filterMode,
                   sortValue, viewPhotos, isInitializing, urlState, viewShared>>
    /\ UNCHANGED besidesCtl

\* loadMoreBtn "click"; the button can be clicked only while it is displayed
LoadMoreClick ==
    /\ pc = "ready"
    /\ loadMoreShown
    /\ advancePage
    /\ ev' = Event("loadMore", FALSE)
    /\ UNCHANGED <<pc, allPhotos, tagList, tagCounts, checked, selectedTags, filterMode,
                   sortValue, viewPhotos, isInitializing, urlState, viewShared>>
    /\ UNCHANGED besidesCtl

Next ==
    \/ InitFail
    \/ InitTagsFail
    \/ InitLoad
    \/ InitApplyUrl
    \/ InitFinish
    \/ \E t \in Range(tagList) : ToggleTag(t)
    \/ ClearTags
    \/ \E mode \in {S_AND, S_OR} : SetMatchMode(mode)
    \/ \E option \in SortOptions : SetSortMode(option)
    \/ \E hit \in BOOLEAN : SentinelCallback(hit)
    \/ LoadMoreClick

Spec == Init /\ [][Next]_vars

-----------------------------------------------------------------------------
(* Numbers of the collage packer (src/README.md)

   A length is an integer count of units of 2^-FracBits px. JavaScript numbers
   are binary floating point: the result of an addition or a subtraction is
   rounded to the nearest number of the format, ties to even. The format of
   the model has Precision significant bits where JavaScript has 53. *)

\* fraction bits of a length: one px is 2^FracBits units
FracBits == 5

\* significant bits of a number
Precision == 14

Unit == 2 ^ FracBits

Px(n) == n * Unit

\* 0.5 px
HalfPx == Unit \div 2

\* the spacing of the numbers of the format around a >= 0
Ulp(a) ==
    IF a < 2 ^ Precision THEN 1
    ELSE 2 ^ (CHOOSE k \in 1..(30 - Precision) :
                 /\ 2 ^ (Precision + k - 1) <= a
                 /\ a < 2 ^ (Precision + k))

RoundTo(a, u) ==
    LET q == a \div u
        r == a % u
    IN  IF 2 * r < u \/ (2 * r = u /\ q % 2 = 0) THEN q * u ELSE (q + 1) * u

\* the number of the format nearest to v
fl(v) == IF v >= 0 THEN RoundTo(v, Ulp(v)) ELSE 0 - RoundTo(0 - v, Ulp(0 - v))

\* a + b and a - b as the program computes them
Plus(a, b) == fl(a + b)

Minus(a, b) == fl(a - b)

\* the largest r in lo..hi with r * r <= n
RECURSIVE ISqrt(_, _, _)
ISqrt(n, lo, hi) ==
    IF lo >= hi THEN lo
    ELSE LET mid == (lo + hi + 1) \div 2
         IN  IF mid * mid <= n THEN ISqrt(n, mid, hi) ELSE ISqrt(n, lo, mid - 1)

\* Math.ceil of a length, in px
Ceil(v) == (v + Unit - 1) \div Unit

\* the defaults of the CSS variables read by cssVarPx
gap == 8

area == 92000

minW == 220

maxW == 560

minH == 190

maxH == 520

\* below this container width layoutCollagePacked returns at once
MinContainer == 200

clamp(x, a, b) == Max(a, Min(b, x))

\* ar after the fallback: 1.5 when ar <= 0.05
EffectiveAr(ar) == IF ar.num * 20 <= ar.den THEN Ar(3, 2) ELSE ar

\* Math.sqrt(area * ar)
IdealW(ar) == fl(ISqrt(((area * ar.num) \div ar.den) * Unit * Unit, 0, 46340))

\* w / ar, to the nearest unit
IdealH(ar) == fl((2 * IdealW(ar) * ar.den + ar.num) \div (2 * ar.num))

\* the rendered size of a tile
TileW(ar) == clamp(IdealW(EffectiveAr(ar)), Px(minW), Px(maxW))

TileH(ar) == clamp(IdealH(EffectiveAr(ar)), Px(minH), Px(maxH))

Node(x, y, w) == [x |-> x, y |-> y, w |-> w]

RECURSIVE MergeLoop(_, _, _)
MergeLoop(nodes, i, out) ==
    IF i > Len(nodes) THEN out
    ELSE LET n == nodes[i]
         IN  IF out = <<>> THEN MergeLoop(nodes, i + 1, <<n>>)
             ELSE LET last == out[Len(out)]
                  IN  IF /\ Abs(Minus(last.y, n.y)) < HalfPx
                         /\ Abs(Minus(Plus(last.x, last.w), n.x)) < HalfPx
                      THEN MergeLoop(nodes, i + 1,
                                     [out EXCEPT ![Len(out)].w = Plus(last.w, n.w)])
                      ELSE MergeLoop(nodes, i + 1, Append(out, n))

\* the variant that merges nothing
mergeSkyline_none(nodes) == nodes

mergeSkyline(nodes) == MergeLoop(nodes, 1, <<>>)

\* the while loop of findPosition: the y of the candidate and what is left
\* of the width to cover
RECURSIVE ScanLoop(_, _, _, _, _)
ScanLoop(sky, j, x, y, remaining) ==
    IF ~(remaining > 0 /\ j <= Len(sky)) THEN [y |-> y, remaining |-> remaining]
    ELSE LET seg == sky[j]
         IN  IF seg.x > Plus(x, HalfPx) THEN [y |-> y, remaining |-> remaining]
             ELSE LET consume == Min(remaining, Minus(Plus(seg.x, seg.w), x))
                  IN  ScanLoop(sky, j + 1, Plus(x, consume), Max(y, seg.y),
                               Minus(remaining, consume))

\* best = null
NoPosition == [found |-> FALSE, x |-> 0, y |-> 0]

Position(x, y) == [found |-> TRUE, x |-> x, y |-> y]

RECURSIVE FindLoop(_, _, _, _, _)
FindLoop(sky, width, w, i, best) ==
    IF i > Len(sky) THEN best
    ELSE LET start == sky[i].x
             scan  == ScanLoop(sky, i, start, sky[i].y, w)
             cand  == Position(start, scan.y)
         IN  IF Plus(start, w) > width THEN FindLoop(sky, width, w, i + 1, best)
             ELSE IF scan.remaining > 0 THEN FindLoop(sky, width, w, i + 1, best)
             ELSE IF ~best.found THEN FindLoop(sky, width, w, i + 1, cand)
             ELSE IF cand.y < Minus(best.y, HalfPx)
                  THEN FindLoop(sky, width, w, i + 1, cand)
             ELSE IF Abs(Minus(cand.y, best.y)) < HalfPx /\ cand.x < best.x
                  THEN FindLoop(sky, width, w, i + 1, cand)
             ELSE FindLoop(sky, width, w, i + 1, best)

findPosition(sky, width, w) == FindLoop(sky, width, w, 1, NoPosition)

\* what addRect keeps of one segment
Remainders(seg, x, w) ==
    LET segEnd  == Plus(seg.x, seg.w)
        rectEnd == Plus(x, w)
    IN  IF segEnd <= x \/ seg.x >= rectEnd THEN <<seg>>
        ELSE (IF seg.x < x THEN <<Node(seg.x, seg.y, Minus(x, seg.x))>> ELSE <<>>)
             \o (IF segEnd > rectEnd
                 THEN <<Node(rectEnd, seg.y, Minus(segEnd, rectEnd))>> ELSE <<>>)

RECURSIVE CutLoop(_, _, _, _)
CutLoop(sky, i, x, w) ==
    IF i > Len(sky) THEN <<>>
    ELSE Remainders(sky[i], x, w) \o CutLoop(sky, i + 1, x, w)

\* out.sort((a, b) => a.x - b.x): a stable sort
SortByX(out) ==
    LET Rank(i) == Cardinality({j \in 1..Len(out) : out[j].x < out[i].x})
                   + Cardinality({j \in 1..(i - 1) : out[j].x = out[i].x}) + 1
    IN  [k \in 1..Len(out) |-> out[CHOOSE i \in 1..Len(out) : Rank(i) = k]]

\* the variant of addRect that keeps no right remainder
addRect_cutsRight(sky, x, y, w, h) ==
    mergeSkyline(SortByX(SelectSeq(CutLoop(sky, 1, x, w), LAMBDA n : n.x <= x)
                         \o <<Node(x, Plus(y, h), w)>>))

\* the skyline after addRect(x, y, w, h)
addRect(sky, x, y, w, h) ==
    mergeSkyline(SortByX(CutLoop(sky, 1, x, w) \o <<Node(x, Plus(y, h), w)>>))

-----------------------------------------------------------------------------
(* One pass of layoutCollagePacked *)

\* the most tiles of a pass
MaxTiles == 4

\* container widths, in px
Widths == {199, 200, 375, 1000}

\* aspect ratios of the tiles: the 3:2 placeholder, a little wider than 3:2,
\* a panorama, a tall strip, and one below the 0.05 floor
AspectRatios == {Ar(3, 2), Ar(301, 200), Ar(4, 1), Ar(1, 4), Ar(1, 25)}

\* the .ctile elements of the grid, by their dataset.ar
TileLists == UNION {[1..n -> AspectRatios] : n \in 0..MaxTiles}

Rect(x, y, w, h, packW, packH) ==
    [left |-> x, top |-> y, width |-> w, height |-> h, packW |-> packW, packH |-> packH]

InitPack ==
    /\ Init
    /\ url = NoQuery

\* the grid has no tiles: the height is set to 0px
LayoutEmpty ==
    /\ lpc = "idle"
    /\ lpc' = "done"
    /\ gridHeight' = 0
    /\ UNCHANGED <<cw, passTiles, skyline, rects, prevRects, maxBottom>>
    /\ UNCHANGED besidesPack

\* the container is narrower than 200 px: the pass returns, leaving all as it is
LayoutSkip ==
    /\ lpc = "idle"
    /\ \E ts \in TileLists \ {<<>>}, width \in Widths :
          /\ width < MinContainer
          /\ passTiles' = ts
          /\ cw' = Px(width)
    /\ lpc' = "skipped"
    /\ UNCHANGED <<skyline, rects, prevRects, maxBottom, gridHeight>>
    /\ UNCHANGED besidesPack

\* the pass begins: one skyline segment over the whole width
LayoutStart ==
    /\ lpc = "idle"
    /\ \E ts \in TileLists \ {<<>>}, width \in Widths :
          /\ ~(width < MinContainer)
          /\ passTiles' = ts
          /\ cw' = Px(width)
          /\ skyline' = <<Node(0, 0, Px(width))>>
    /\ rects' = <<>>
    /\ maxBottom' = 0
    /\ lpc' = "packing"
    /\ UNCHANGED <<prevRects, gridHeight>>
    /\ UNCHANGED besidesPack

\* the variant whose packing width is not limited to the container
PlaceTile_wide ==
    /\ lpc = "packing"
    /\ Len(rects) < Len(passTiles)
    /\ LET ar    == passTiles[Len(rects) + 1]
           w     == TileW(ar)
           h     == TileH(ar)
           packW == Plus(w, Px(gap))
           packH == Plus(h, Px(gap))
           found == findPosition(skyline, cw, packW)
           pos   == IF found.found THEN found ELSE Position(0, maxBottom)
       IN  /\ rects' = Append(rects, Rect(pos.x, pos.y, w, h, packW, packH))
           /\ skyline' = addRect(skyline, pos.x, pos.y, packW, packH)
           /\ maxBottom' = Max(maxBottom, Plus(pos.y, packH))
    /\ UNCHANGED <<cw, passTiles, prevRects, gridHeight, lpc>>
    /\ UNCHANGED besidesPack

\* one turn of the loop over the tiles
PlaceTile ==
    /\ lpc = "packing"
    /\ Len(rects) < Len(passTiles)
    /\ LET ar    == passTiles[Len(rects) + 1]
           w     == TileW(ar)
           h     == TileH(ar)
           packW == Min(Plus(w, Px(gap)), cw)
           packH == Plus(h, Px(gap))
           found == findPosition(skyline, cw, packW)
           pos   == IF found.found THEN found ELSE Position(0, maxBottom)
       IN  /\ rects' = Append(rects, Rect(pos.x, pos.y, w, h, packW, packH))
           /\ skyline' = addRect(skyline, pos.x, pos.y, packW, packH)
           /\ maxBottom' = Max(maxBottom, Plus(pos.y, packH))
    /\ UNCHANGED <<cw, passTiles, prevRects, gridHeight, lpc>>
    /\ UNCHANGED besidesPack

\* after the last tile the height of the grid is set
LayoutEnd ==
    /\ lpc = "packing"
    /\ Len(rects) = Len(passTiles)
    /\ gridHeight' = Ceil(maxBottom)
    /\ lpc' = "done"
    /\ UNCHANGED <<cw, passTiles, skyline, rects, prevRects, maxBottom>>
    /\ UNCHANGED besidesPack

\* the variant whose pass goes on from the skyline the pass before it left
LayoutAgain_keepsSkyline ==
    /\ lpc = "done"
    /\ passTiles # <<>>
    /\ Len(passTiles) < MaxTiles
    /\ \E ar \in AspectRatios : passTiles' = Append(passTiles, ar)
    /\ prevRects' = rects
    /\ rects' = <<>>
    /\ maxBottom' = 0
    /\ lpc' = "packing"
    /\ UNCHANGED <<cw, skyline, gridHeight>>
    /\ UNCHANGED besidesPack

\* a page advance has appended a tile to the grid and the next pass begins, in
\* the same container: one skyline segment over the whole width again; the
\* tiles keep the style of the pass before until their turn
LayoutAgain ==
    /\ lpc = "done"
    /\ passTiles # <<>>
    /\ Len(passTiles) < MaxTiles
    /\ \E ar \in AspectRatios : passTiles' = Append(passTiles, ar)
    /\ prevRects' = rects
    /\ rects' = <<>>
    /\ skyline' = <<Node(0, 0, cw)>>
    /\ maxBottom' = 0
    /\ lpc' = "packing"
    /\ UNCHANGED <<cw, gridHeight>>
    /\ UNCHANGED besidesPack

NextPack ==
    \/ LayoutEmpty
    \/ LayoutSkip
    \/ LayoutStart
    \/ PlaceTile
    \/ LayoutEnd
    \/ LayoutAgain

SpecPack == InitPack /\ [][NextPack]_vars

-----------------------------------------------------------------------------
(* applyFilter and sortPhotos on their own: one call on any array *)

\* the longest array of the calls
MaxFnLen == 3

\* the photos of the arrays: tagged a; a and b; untagged; "A"; without a date;
\* a and b; with a date that does not parse. 1004 and 6 have the same
\* timestamp, and so have 1001 and 1006.
FnPhotos == {1001, 1002, 1004, 1006, 5, 6, 7}

FnArrays == UNION {[1..n -> FnPhotos] : n \in 0..MaxFnLen} \cup {ExampleDoc}

FnSelections == {<<>>, <<TagA>>, <<TagB>>, <<TagA, TagB>>, <<TagZ>>}

FilterCall(selected, mode) == [op |-> "filter", selected |-> selected, mode |-> mode]

SortCall(mode) == [op |-> "sort", selected |-> <<>>, mode |-> mode]

FnCalls ==
    {FilterCall(sel, mode) : sel \in FnSelections, mode \in {S_AND, S_OR}}
    \cup {SortCall(mode) : mode \in SortOptions}

\* every state of Math.random
FnSeeds == 0..15

InitFn ==
    /\ CtlLoading
    /\ url = NoQuery
    /\ RafIdle
    /\ LbClosed
    /\ PackIdle
    /\ fnArr \in FnArrays
    /\ fnCall \in FnCalls
    /\ fnOut = <<>>
    /\ fnDone = FALSE

\* applyFilter(arr) with selectedTags and filterMode as in the call
CallFilter ==
    /\ ~fnDone
    /\ fnCall.op = "filter"
    /\ fnOut' = applyFilter(fnArr, fnCall.selected, fnCall.mode)
    /\ fnDone' = TRUE
    /\ UNCHANGED <<fnArr, fnCall>>
    /\ UNCHANGED besidesFn

\* sortPhotos(arr, mode)
CallSort ==
    /\ ~fnDone
    /\ fnCall.op = "sort"
    /\ \E seed \in FnSeeds : fnOut' = sortPhotos(fnArr, fnCall.mode, seed)
    /\ fnDone' = TRUE
    /\ UNCHANGED <<fnArr, fnCall>>
    /\ UNCHANGED besidesFn

NextFn ==
    \/ CallFilter
    \/ CallSort

SpecFn == InitFn /\ [][NextFn]_vars

-----------------------------------------------------------------------------
(* Properties of the view-state controller, checked under Spec *)

\* the number of tiles the grid is to hold
TargetCount == Min(Len(viewPhotos), page * PAGE_SIZE)

\* C1: once init() has finished, and after every later handler, the grid holds
\* exactly min(total, page * PAGE_SIZE) tiles, the tile at position i carries
\* index i and shows view-list item i, and renderedCount is that count.
C1_GridShowsViewPrefix ==
    pc = "ready" =>
        /\ Len(tiles) = TargetCount
        /\ \A k \in 1..Len(tiles) :
              /\ tiles[k].index = k - 1
              /\ tiles[k].photo = viewPhotos[k]
        /\ renderedCount = TargetCount

\* C1 witness: a load-more click has revealed the second page of a view list
\* of more than two pages
C1_Witness ==
    /\ pc = "ready"
    /\ ev.op = "loadMore"
    /\ page = 2
    /\ Len(tiles) = 2 * PAGE_SIZE
    /\ Len(viewPhotos) > Len(tiles)

\* the program's state that a page advance could touch
Shown == <<page, viewPhotos, tiles, renderedCount, statusText, loadMoreShown, url,
           selectedTags, filterMode, sortValue>>

Passes(p, selected, mode) ==
    LET want == Range(selected)
        have == Range(PhotoTags(p))
    IN  \/ want = {}
        \/ mode = S_AND /\ want \subseteq have
        \/ mode # S_AND /\ want \cap have # {}

\* the timestamp a photo is sorted by
SortKey(p) == IF PhotoDate(p).kind = "date" THEN PhotoDate(p).t ELSE 0

\* view is the photos of all that pass, ordered as sortv asks
IsViewOf(view, all, selected, mode, sortv) ==
    /\ Range(view) = {p \in Range(all) : Passes(p, selected, mode)}
    /\ Len(view) = Cardinality(Range(view))
    /\ sortv = S_date_asc =>
          \A k \in 1..(Len(view) - 1) : SortKey(view[k]) <= SortKey(view[k + 1])
    /\ sortv \notin {S_date_asc, S_random} =>
          \A k \in 1..(Len(view) - 1) : SortKey(view[k]) >= SortKey(view[k + 1])

\* C6: a tag toggle, a match-mode change, a sort change and clearing the tags
\* each set page to 1, recompute the view list from all photos under the new
\* selection, match mode and sort mode, and leave the grid holding only newly
\* made tiles, for the indices 0 .. min(total, PAGE_SIZE) - 1.
C6_InvalidationRebuilds ==
    [][ev'.op \in {"toggleTag", "setMatchMode", "setSortMode", "clearTags"} =>
          /\ page' = 1
          /\ IsViewOf(viewPhotos', allPhotos, selectedTags', filterMode', sortValue')
          /\ Len(tiles') = Min(Len(viewPhotos'), PAGE_SIZE)
          /\ \A k \in 1..Len(tiles') :
                /\ tiles'[k].fresh
                /\ tiles'[k].index = k - 1
                /\ tiles'[k].photo = viewPhotos'[k]]_vars

\* C6 witness: a match-mode change has left a filtered view list of more than
\* one page, of which the first page is shown
C6_Witness ==
    /\ pc = "ready"
    /\ ev.op = "setMatchMode"
    /\ selectedTags # <<>>
    /\ page = 1
    /\ Len(tiles) = PAGE_SIZE
    /\ Len(viewPhotos) > PAGE_SIZE

\* C7: a page advance adds exactly 1 to page and leaves the view list, the
\* selected tags, the match mode and the sort mode as they were; a sentinel
\* callback that does not advance leaves page as it was too.
C7_AdvanceKeepsView ==
    [][ev'.op \in {"sentinel", "loadMore"} =>
          /\ viewPhotos' = viewPhotos
          /\ selectedTags' = selectedTags
          /\ filterMode' = filterMode
          /\ sortValue' = sortValue
          /\ IF ev'.op = "loadMore" \/ (ev'.hit /\ Len(tiles) < Len(viewPhotos))
             THEN page' = page + 1
             ELSE page' = page]_vars

\* C7 witness: the second page of a shuffled view list has been revealed
C7_Witness ==
    /\ pc = "ready"
    /\ ev.op = "loadMore"
    /\ sortValue = S_random
    /\ page = 2
    /\ viewPhotos # allPhotos
    /\ Len(viewPhotos) = Len(allPhotos)
    /\ Len(tiles) = 2 * PAGE_SIZE

\* C8: once init() has finished, the URL query holds tags = the selected tags
\* joined by commas (no tags key when none is selected), mode = the match
\* mode, sort = the sort mode and page = the page, after every handler.
C8_UrlMirrorsState ==
    pc = "ready" =>
        /\ url.tags = IF selectedTags = <<>> THEN NoParam
                      ELSE Param(join(selectedTags, ","))
        /\ url.mode = Param(filterMode)
        /\ url.sort = Param(sortValue)
        /\ url.page = Param(String(page))

\* C8 witness: with tags b and a selected under OR, a load-more click has
\* written page=2 to the URL
C8_Witness ==
    /\ pc = "ready"
    /\ ev.op = "loadMore"
    /\ url.tags = Param(<<"b", ",", "a">>)
    /\ url.mode = Param(<<"O", "R">>)
    /\ url.page = Param(<<"2">>)
    /\ page = 2

\* the URL ?tags=a,b&mode=OR&sort=date_asc&page=2
ExampleUrl ==
    [tags |-> Param(<<"a", ",", "b">>), mode |-> Param(<<"O", "R">>),
     sort |-> Param(S_date_asc), page |-> Param(<<"2">>)]

\* C9: init() takes the selected tags, the match mode, the sort mode and the
\* page from the URL; between reading the URL and its end nothing is rendered
\* and page stays the URL's page, and its one render makes
\* min(total, page * PAGE_SIZE) tiles. For ?tags=a,b&mode=OR&sort=date_asc&page=2
\* that is tags a and b, OR, date_asc and page 2.
C9_InitAppliesUrl ==
    [][/\ pc = "applied" =>
             /\ page = urlState.page
             /\ tiles = <<>>
             /\ renderedCount = 0
       /\ (pc = "applied" /\ pc' = "ready") =>
             /\ page' = urlState.page
             /\ Range(selectedTags') = Range(urlState.tags)
             /\ filterMode' = urlState.mode
             /\ urlState.sort \in SortOptions => sortValue' = urlState.sort
             /\ Len(tiles') = Min(Len(viewPhotos'), urlState.page * PAGE_SIZE)
             /\ \A k \in 1..Len(tiles') : tiles'[k].fresh
       /\ (pc = "applied" /\ pc' = "ready" /\ url = ExampleUrl) =>
             /\ selectedTags' = <<TagA, TagB>>
             /\ filterMode' = S_OR
             /\ sortValue' = S_date_asc
             /\ page' = 2
             /\ Len(tiles') = Min(Len(viewPhotos'), 2 * PAGE_SIZE)]_vars

\* C9 witness: init() has finished on ?tags=a,b&mode=OR&...&page=2 with more
\* than one page of tiles
C9_Witness ==
    /\ pc = "ready"
    /\ ev.op = "init"
    /\ selectedTags = <<TagA, TagB>>
    /\ filterMode = S_OR
    /\ page = 2
    /\ Len(tiles) > PAGE_SIZE

\* C10: whatever the URL query, init() ends with the match mode AND or OR, the
\* sort mode one of date_desc, date_asc and random, and page >= 1.
C10_InitStateIsValid ==
    (pc = "ready" /\ ev.op = "init") =>
        /\ filterMode \in {S_AND, S_OR}
        /\ sortValue \in SortOptions
        /\ page >= 1

-----------------------------------------------------------------------------
(* Properties of the collage packer, checked under SpecPack *)

\* the end of skyline segment i less the start of segment i + 1
Seam(i) == skyline[i].x + skyline[i].w - skyline[i + 1].x

\* C3 (to within rounding): from the start of a pass and after every addRect the
\* skyline segments are in ascending order of x, each has a positive width,
\* the first begins at 0, each next one begins within 0.5 px of the end of
\* the one before it, and the last ends within 0.5 px of the container width.
C3_SkylineCoversWidth ==
    skyline # <<>> =>
        /\ skyline[1].x = 0
        /\ \A i \in 1..Len(skyline) : skyline[i].w > 0
        /\ \A i \in 1..(Len(skyline) - 1) :
              /\ skyline[i].x <= skyline[i + 1].x
              /\ Abs(Seam(i)) < HalfPx
        /\ Abs(skyline[Len(skyline)].x + skyline[Len(skyline)].w - cw) < HalfPx

\* C3 witness: after three tiles the skyline has three segments and two of
\* them do not meet exactly
C3_Witness ==
    /\ lpc = "packing"
    /\ Len(rects) = 3
    /\ Len(skyline) = 3
    /\ \E i \in 1..(Len(skyline) - 1) : Seam(i) # 0

\* C3 (exact form): the segments are sorted by x, have positive widths, and each
\* begins exactly where the one before it ends, from 0 to the container width.
C3_SkylineExact ==
    skyline # <<>> =>
        /\ skyline[1].x = 0
        /\ \A i \in 1..Len(skyline) : skyline[i].w > 0
        /\ \A i \in 1..(Len(skyline) - 1) :
              /\ skyline[i].x < skyline[i + 1].x
              /\ Plus(skyline[i].x, skyline[i].w) = skyline[i + 1].x
        /\ Plus(skyline[Len(skyline)].x, skyline[Len(skyline)].w) = cw

\* C4: when a pass has ended, the rectangle (left, top, width, height) of
\* every tile lies within [0, container width) x [0, grid height).
C4_TilesInsideContainer ==
    (lpc = "done" /\ rects # <<>>) =>
        \A i \in 1..Len(rects) :
            /\ 0 <= rects[i].left
            /\ rects[i].left + rects[i].width <= cw
            /\ 0 <= rects[i].top
            /\ rects[i].top + rects[i].height <= Px(gridHeight)

\* how far the footprints (left, top, width + gap, height + gap) of two tiles
\* reach into each other along x and along y
OverlapX(a, b) ==
    Min(a.left + a.width + Px(gap), b.left + b.width + Px(gap)) - Max(a.left, b.left)

OverlapY(a, b) ==
    Min(a.top + a.height + Px(gap), b.top + b.height + Px(gap)) - Max(a.top, b.top)

\* C5: when a pass has ended, the gap-inflated footprints of any two tiles
\* have disjoint interiors.
C5_FootprintsDisjoint ==
    lpc = "done" =>
        \A i \in 1..Len(rects) : \A j \in 1..(i - 1) :
            ~(OverlapX(rects[i], rects[j]) > 0 /\ OverlapY(rects[i], rects[j]) > 0)

-----------------------------------------------------------------------------
(* Properties of applyFilter and sortPhotos, checked under SpecFn *)

\* the positions of arr whose photo passes
PassIndices(arr, selected, mode) ==
    {i \in 1..Len(arr) : Passes(arr[i], selected, mode)}

\* the k-th smallest member of a set of numbers
NthOf(S, k) == CHOOSE i \in S : Cardinality({j \in S : j < i}) = k - 1

\* C11: the result of applyFilter is the subsequence of its input, in the
\* input's order, of the photos that pass: all of them when no tag is selected,
\* under AND those that have every selected tag, under OR those that have at
\* least one, tags compared as exact strings. On the five photos tagged {a},
\* {a,b}, {b}, {}, {a,b}, selecting a and b gives photos 2 and 5 under AND and
\* photos 1, 2, 3 and 5 under OR.
C11_FilterIsSubsequence ==
    (fnDone /\ fnCall.op = "filter") =>
        LET idx == PassIndices(fnArr, fnCall.selected, fnCall.mode)
        IN  /\ Len(fnOut) = Cardinality(idx)
            /\ \A k \in 1..Len(fnOut) : fnOut[k] = fnArr[NthOf(idx, k)]
            /\ (fnArr = ExampleDoc /\ fnCall.selected = <<TagA, TagB>>) =>
                  fnOut = IF fnCall.mode = S_AND THEN <<1002, 1005>>
                          ELSE <<1001, 1002, 1003, 1005>>

\* C11 witness: the five photos filtered by a and b under AND
C11_Witness ==
    /\ fnDone
    /\ fnCall = FilterCall(<<TagA, TagB>>, S_AND)
    /\ fnArr = ExampleDoc
    /\ fnOut = <<1002, 1005>>

\* C12: for the same array and selection every photo of the AND result is in
\* the OR result, and with no tag selected the result is the input itself.
C12_AllWithinAny ==
    (fnDone /\ fnCall.op = "filter") =>
        /\ fnCall.mode = S_AND =>
              \A k \in 1..Len(fnOut) :
                  fnOut[k] \in Range(applyFilter(fnArr, fnCall.selected, S_OR))
        /\ fnCall.mode = S_OR =>
              \A p \in Range(applyFilter(fnArr, fnCall.selected, S_AND)) :
                  p \in Range(fnOut)
        /\ fnCall.selected = <<>> => fnOut = fnArr

\* C12 witness: an AND result that is smaller than the OR result of the same
\* call and not empty
C12_Witness ==
    /\ fnDone
    /\ fnCall.op = "filter"
    /\ fnCall.mode = S_AND
    /\ fnOut # <<>>
    /\ Len(fnOut) < Len(applyFilter(fnArr, fnCall.selected, S_OR))

Reverse(seq) == [k \in 1..Len(seq) |-> seq[Len(seq) + 1 - k]]

\* every photo of arr has a date that parses, and no two have the same one
DatedApart(arr) ==
    /\ \A i \in 1..Len(arr) : PhotoDate(arr[i]).kind = "date"
    /\ \A i, j \in 1..Len(arr) : i # j => PhotoDate(arr[i]).t # PhotoDate(arr[j]).t

\* C13: on an array whose photos all have parseable and pairwise different
\* dates, the date_desc result of sortPhotos is the reverse of the date_asc
\* result, and the date_asc result the reverse of the date_desc result.
C13_DescReversesAsc ==
    (fnDone /\ fnCall.op = "sort" /\ DatedApart(fnArr)) =>
        /\ fnCall.mode = S_date_desc =>
              fnOut = Reverse(sortPhotos(fnArr, S_date_asc, 0))
        /\ fnCall.mode = S_date_asc =>
              fnOut = Reverse(sortPhotos(fnArr, S_date_desc, 0))

\* C13 witness: three photos with three dates, sorted by date_desc into an
\* order that is neither the input's nor its reverse
C13_Witness ==
    /\ fnDone
    /\ fnCall = SortCall(S_date_desc)
    /\ Len(fnArr) = 3
    /\ DatedApart(fnArr)
    /\ fnOut # fnArr
    /\ fnOut # Reverse(fnArr)

CountOf(seq, p) == Cardinality({i \in 1..Len(seq) : seq[i] = p})

\* a and b hold the same photos, each as many times
SameMultiset(a, b) ==
    /\ Len(a) = Len(b)
    /\ \A p \in Range(a) \cup Range(b) : CountOf(a, p) = CountOf(b, p)

\* C14: under date_asc (date_desc) the result of sortPhotos holds the photos of
\* the input, each as many times, in non-decreasing (non-increasing) order of
\* timestamp, a photo without a date or with a date that does not parse
\* counting as timestamp 0.
C14_SortedByTimestamp ==
    (fnDone /\ fnCall.op = "sort" /\ fnCall.mode \in {S_date_asc, S_date_desc}) =>
        /\ SameMultiset(fnOut, fnArr)
        /\ \A k \in 1..(Len(fnOut) - 1) :
              IF fnCall.mode = S_date_asc
              THEN SortKey(fnOut[k]) <= SortKey(fnOut[k + 1])
              ELSE SortKey(fnOut[k]) >= SortKey(fnOut[k + 1])

\* C14 witness: a dated photo, one whose date does not parse and one without
\* a date, sorted by date_asc: the two undated ones come first, in input order
C14_Witness ==
    /\ fnDone
    /\ fnCall = SortCall(S_date_asc)
    /\ fnArr = <<1001, 7, 5>>
    /\ fnOut = <<7, 5, 1001>>

\* C15: under random the result of sortPhotos holds the photos of the input,
\* each as many times, whatever Math.random returns.
C15_ShuffleIsPermutation ==
    (fnDone /\ fnCall.op = "sort" /\ fnCall.mode = S_random) =>
        SameMultiset(fnOut, fnArr)

\* C15 witness: an array that holds one photo twice, shuffled into another order
C15_Witness ==
    /\ fnDone
    /\ fnCall = SortCall(S_random)
    /\ fnArr = <<1001, 1001, 1002>>
    /\ fnOut = <<1002, 1001, 1001>>

-----------------------------------------------------------------------------
(* Properties of the controller's arrays, checked under Spec *)

\* C16: no transition reorders or modifies the loaded photo sequence. Once the
\* photos are loaded, allPhotos is the same sequence after every step, and the
\* view is never the array object of the loaded sequence, so that sorting or
\* shuffling the view cannot reach it.
C16_LoadedSequenceUntouched ==
    [][/\ (pc # "loading" => allPhotos' = allPhotos)
       /\ ~viewShared']_vars

\* the random sort has been chosen with no tag selected: the filter returned
\* the loaded array itself, the view is in another order, and the loaded
\* sequence is as it was loaded
C16_Witness ==
    /\ ev.op = "setSortMode"
    /\ sortValue = S_random
    /\ selectedTags = <<>>
    /\ allPhotos = ExampleDoc
    /\ viewPhotos # allPhotos
    /\ Len(viewPhotos) = Len(allPhotos)

-----------------------------------------------------------------------------
(* The grid after init(): page advances, image loads, resizes and frames *)

\* the state in which init() leaves the controller for photo document doc,
\* the stored tag document and a URL without a query; render() has asked for
\* a layout pass
ReadyOn(doc) ==
    /\ pc = "ready"
    /\ allPhotos = doc
    /\ tagList = buildTagUI(StoredTagIndex)
    /\ tagCounts = StoredTagIndex
    /\ checked = {}
    /\ selectedTags = <<>>
    /\ filterMode = S_AND
    /\ sortValue = S_date_desc
    /\ page = 1
    /\ viewPhotos = sortPhotos(doc, S_date_desc, 0)
    /\ LET r == render(viewPhotos, 1, 0, <<>>)
       IN  /\ tiles = r.tiles
           /\ detached = {}
           /\ renderedCount = r.renderedCount
           /\ statusText = r.status
           /\ loadMoreShown = r.loadMore
    /\ isInitializing = FALSE
    /\ urlState = NoUrlState
    /\ ev = Event("init", FALSE)
    /\ viewShared = FALSE
    /\ url = setUrlState(NoQuery, <<>>, S_AND, S_date_desc, 1)
    /\ layoutRaf = 1
    /\ rafQueue = <<"layout">>
    /\ framePasses = 0
    /\ rafCalls = 1
    /\ frameCalls = 0

\* naturalWidth and naturalHeight of a loaded thumbnail; 0 by 0 for an image
\* without intrinsic dimensions
NaturalSizes == {[w |-> 4, h |-> 3], [w |-> 2, h |-> 3], [w |-> 0, h |-> 0]}

\* the "load" listener of the image of the tile at place k of the grid
ImageLoad(k, size) ==
    /\ pc = "ready"
    /\ k \in 1..Len(tiles)
    /\ ~tiles[k].loaded
    /\ IF size.w # 0 /\ size.h # 0
       THEN /\ tiles' = [Kept(tiles) EXCEPT ![k].ar = Ar(size.w, size.h),
                                            ![k].loaded = TRUE]
            /\ ScheduleLayout
       ELSE /\ tiles' = [Kept(tiles) EXCEPT ![k].loaded = TRUE]
            /\ UNCHANGED rafVars
    /\ ev' = Event("imageLoad", FALSE)
    /\ UNCHANGED <<pc, url, allPhotos, tagList, tagCounts, checked, selectedTags, filterMode,
                   sortValue, page, viewPhotos, detached, renderedCount, isInitializing,
                   statusText, loadMoreShown, urlState, viewShared>>
    /\ UNCHANGED besidesCtl

\* window "resize": scheduleLayout
Resize ==
    /\ pc = "ready"
    /\ ScheduleLayout
    /\ ev' = Event("resize", FALSE)
    /\ UNCHANGED <<pc, url, allPhotos, tagList, tagCounts, checked, selectedTags, filterMode,
                   sortValue, page, viewPhotos, tiles, detached, renderedCount, isInitializing,
                   statusText, loadMoreShown, urlState, viewShared>>
    /\ UNCHANGED besidesCtl

\* dataset.ar of the tiles of the grid, in document order
ArsOf(grid) == [k \in 1..Len(grid) |-> grid[k].ar]

\* the variant whose callback does not clear layoutRaf
AnimationFrame_keepsHandle ==
    /\ rafQueue # <<>>
    /\ layoutRaf' = layoutRaf
    /\ framePasses' = Len(rafQueue)
    /\ frameCalls' = rafCalls
    /\ rafCalls' = 0
    /\ rafQueue' = <<>>
    /\ passTiles' = ArsOf(tiles)
    /\ ev' = Event("frame", FALSE)
    /\ UNCHANGED <<pc, url, allPhotos, tagList, tagCounts, checked, selectedTags, filterMode,
                   sortValue, page, viewPhotos, tiles, detached, renderedCount, isInitializing,
                   statusText, loadMoreShown, urlState, viewShared>>
    /\ UNCHANGED <<cw, skyline, rects, prevRects, maxBottom, gridHeight, lpc>>
    /\ UNCHANGED <<fnVars, lbVars>>

\* the browser runs the callbacks of the frame; each one is
\* () => { layoutRaf = 0; layoutJustified(); }, and the pass reads dataset.ar
\* of every tile that is in the grid when it runs (the container is taken to
\* be 200 px wide or more, so that the pass does not return before its loop)
AnimationFrame ==
    /\ rafQueue # <<>>
    /\ layoutRaf' = 0
    /\ framePasses' = Len(rafQueue)
    /\ frameCalls' = rafCalls
    /\ rafCalls' = 0
    /\ rafQueue' = <<>>
    /\ passTiles' = ArsOf(tiles)
    /\ ev' = Event("frame", FALSE)
    /\ UNCHANGED <<pc, url, allPhotos, tagList, tagCounts, checked, selectedTags, filterMode,
                   sortValue, page, viewPhotos, tiles, detached, renderedCount, isInitializing,
                   statusText, loadMoreShown, urlState, viewShared>>
    /\ UNCHANGED <<cw, skyline, rects, prevRects, maxBottom, gridHeight, lpc>>
    /\ UNCHANGED <<fnVars, lbVars>>

InitGrid ==
    /\ ReadyOn(LargeDoc)
    /\ LbClosed
    /\ PackIdle
    /\ FnIdle

NextGrid ==
    \/ \E hit \in BOOLEAN : SentinelCallback(hit)
    \/ LoadMoreClick
    \/ \E k \in LoadTiles, size \in NaturalSizes : ImageLoad(k, size)
    \/ Resize
    \/ AnimationFrame

SpecGrid == InitGrid /\ [][NextGrid]_vars

\* init() reaches the initial state of SpecGrid
ReadyOnLargeDoc == ReadyOn(LargeDoc) /\ LbClosed

\* C17: a pure page advance only appends tiles for the newly revealed indices
\* renderedCount..target-1. Every tile that was in the grid is still there, at
\* its place, the same element (not created again), with its index, its photo
\* and the aspect ratio it has learned from its image; the tiles after them
\* are new, one per revealed index, in view order.
C17_AdvanceOnlyAppends ==
    [][page' = page + 1 =>
         /\ Len(tiles) = renderedCount
         /\ Len(tiles') = renderedCount'
         /\ renderedCount <= renderedCount'
         /\ \A k \in 1..Len(tiles) :
              /\ ~tiles'[k].fresh
              /\ tiles'[k] = [tiles[k] EXCEPT !.fresh = FALSE]
         /\ \A k \in (renderedCount + 1)..renderedCount' :
              /\ tiles'[k].fresh
              /\ tiles'[k].index = k - 1
              /\ tiles'[k].photo = viewPhotos[k]]_vars

\* page two has just been appended below a grid whose first tile had learned
\* its aspect ratio from its image
C17_Witness ==
    /\ ev.op \in {"loadMore", "sentinel"}
    /\ page = 2
    /\ Len(tiles) = 2 * PAGE_SIZE
    /\ tiles[1].loaded
    /\ tiles[1].ar = Ar(4, 3)
    /\ ~tiles[1].fresh
    /\ tiles[PAGE_SIZE + 1].fresh

\* C18: at most one animation-frame layout request is pending at any time.
\* However many calls of scheduleLayout arrive between two frames, the next
\* frame runs exactly one layout pass; and a request is made only when none
\* is pending, that is, after the callback of the request before it has
\* started and cleared layoutRaf.
C18_OneLayoutPerFrame ==
    [][/\ Len(rafQueue') <= 1
       /\ (layoutRaf' # 0) = (rafQueue' # <<>>)
       /\ (ev'.op = "frame" => framePasses' = 1)
       /\ (Len(rafQueue') > Len(rafQueue) => layoutRaf = 0 /\ rafQueue = <<>>)]_vars

\* a frame has just run one layout pass in answer to two or more calls of
\* scheduleLayout, an image load among them
C18_Witness ==
    /\ ev.op = "frame"
    /\ frameCalls >= 2
    /\ framePasses = 1
    /\ layoutRaf = 0
    /\ \E k \in LoadTiles : k <= Len(tiles) /\ tiles[k].loaded /\ tiles[k].ar # PlaceholderAr

-----------------------------------------------------------------------------
(* The lightbox *)

\* the lightbox as a record: lbIndex, the class "hidden", lbImg.src and the
\* position line of lbMeta
Lb == [lbIndex |-> lbIndex, lbHidden |-> lbHidden, lbSrc |-> lbSrc, lbMeta |-> lbMeta]

\* openLightbox(index) on the view list. viewPhotos[index] is undefined for an
\* index outside the list: reading its paths throws after lbIndex was assigned
openLightbox(index, view, lb) ==
    IF index + 1 \in 1..Len(view)
    THEN [lbIndex |-> index,
          lbHidden |-> FALSE,
          lbSrc |-> view[index + 1],
          lbMeta |-> PositionLine(index + 1, Len(view))]
    ELSE [lb EXCEPT !.lbIndex = index]

\* the variant that leaves lbIndex as it is
closeLightbox_keepIndex(lb) == [lb EXCEPT !.lbHidden = TRUE, !.lbSrc = NoPhoto]

\* closeLightbox()
closeLightbox(lb) == [lb EXCEPT !.lbHidden = TRUE, !.lbSrc = NoPhoto, !.lbIndex = -1]

\* lbStep(dir)
lbStep(dir, view, lb) ==
    IF lb.lbIndex < 0 THEN lb
    ELSE LET next == lb.lbIndex + dir
         IN  IF next < 0 \/ next >= Len(view) THEN lb
             ELSE openLightbox(next, view, lb)

\* keys of the keyboard: the three that onKey knows and one other
Keys == {"Escape", "ArrowLeft", "ArrowRight", "Enter"}

\* onKey(e), for e.key
onKey(key, view, lb) ==
    IF lb.lbHidden THEN lb
    ELSE IF key = "Escape" THEN closeLightbox(lb)
    ELSE IF key = "ArrowLeft" THEN lbStep(-1, view, lb)
    ELSE IF key = "ArrowRight" THEN lbStep(1, view, lb)
    ELSE lb

\* a handler of the lightbox leaves it as the record r, and the rest of the
\* page as it was
LbBecomes(r) ==
    /\ lbIndex' = r.lbIndex
    /\ lbHidden' = r.lbHidden
    /\ lbSrc' = r.lbSrc
    /\ lbMeta' = r.lbMeta
    /\ UNCHANGED <<pc, url, allPhotos, tagList, tagCounts, checked, selectedTags, filterMode,
                   sortValue, page, viewPhotos, tiles, detached, renderedCount, isInitializing,
                   statusText, loadMoreShown, urlState, viewShared>>
    /\ UNCHANGED <<rafVars, packVars, fnVars>>

\* "click" on the tile at place k of the grid: openLightbox(i), with the i of
\* the turn of render's loop that made the tile
TileClick(k) ==
    /\ pc = "ready"
    /\ k \in 1..Len(tiles)
    /\ LbBecomes(openLightbox(tiles[k].opens, viewPhotos, Lb))
    /\ ev' = Event("tileClick", FALSE)

\* lbClose "click"
CloseClick ==
    /\ pc = "ready"
    /\ LbBecomes(closeLightbox(Lb))
    /\ ev' = Event("closeClick", FALSE)

\* lbPrev "click"
PrevClick ==
    /\ pc = "ready"
    /\ LbBecomes(lbStep(-1, viewPhotos, Lb))
    /\ ev' = Event("prevClick", FALSE)

\* lbNext "click"
NextClick ==
    /\ pc = "ready"
    /\ LbBecomes(lbStep(1, viewPhotos, Lb))
    /\ ev' = Event("nextClick", FALSE)

\* lightbox "click": on the backdrop e.target is the lightbox itself, on the
\* content it is a descendant
LightboxClick(onBackdrop) ==
    /\ pc = "ready"
    /\ LbBecomes(IF onBackdrop THEN closeLightbox(Lb) ELSE Lb)
    /\ ev' = Event(IF onBackdrop THEN "backdropClick" ELSE "contentClick", FALSE)

\* the name of the event "keydown" with e.key = key
KeyOp(key) ==
    IF key = "Escape" THEN "keyEscape"
    ELSE IF key = "ArrowLeft" THEN "keyArrowLeft"
    ELSE IF key = "ArrowRight" THEN "keyArrowRight"
    ELSE "keyOther"

\* document "keydown"
KeyDown(key) ==
    /\ pc = "ready"
    /\ LbBecomes(onKey(key, viewPhotos, Lb))
    /\ ev' = Event(KeyOp(key), FALSE)

\* the touch gestures of the model: a finger moved 120 px to the left or to the
\* right with 5 px of vertical travel, 120 px down with 5 px of horizontal
\* travel, and a touch that does not move
HorizontalSwipes == {"swipeLeft", "swipeRight"}

Gestures == HorizontalSwipes \cup {"swipeDown", "touchHold"}

\* "touchstart", "touchmove", "touchend" of the gesture g on the lightbox or
\* the document: init() installs "click" listeners on lbClose, lbPrev, lbNext
\* and the lightbox and "keydown" on the document, and no listener of a touch
\* or pointer event, so no code of the page runs
Touch(g) ==
    /\ pc = "ready"
    /\ LbBecomes(Lb)
    /\ ev' = Event(g, FALSE)

\* init() has run on the example document
InitLightbox ==
    /\ ReadyOn(ExampleDoc)
    /\ LbClosed
    /\ PackIdle
    /\ FnIdle

NextLightbox ==
    \/ \E t \in Range(tagList) : ToggleTag(t)
    \/ ClearTags
    \/ \E mode \in {S_AND, S_OR} : SetMatchMode(mode)
    \/ \E option \in SortOptions : SetSortMode(option)
    \/ \E hit \in BOOLEAN : SentinelCallback(hit)
    \/ \E k \in 1..Len(tiles) : TileClick(k)
    \/ CloseClick
    \/ PrevClick
    \/ NextClick
    \/ \E onBackdrop \in BOOLEAN : LightboxClick(onBackdrop)
    \/ \E key \in Keys : KeyDown(key)
    \/ \E g \in Gestures : Touch(g)

SpecLightbox == InitLightbox /\ [][NextLightbox]_vars

\* init() reaches the initial state of SpecLightbox
ReadyOnExampleDoc == ReadyOn(ExampleDoc) /\ LbClosed

-----------------------------------------------------------------------------
(* Properties of the lightbox, checked under SpecLightbox *)

\* the events that dismiss the lightbox
CloseOps == {"closeClick", "backdropClick", "keyEscape"}

LbIsClosed == lbHidden /\ lbIndex = -1

LbIsOpen == ~lbHidden /\ lbIndex >= 0

\* C19: the lightbox is CLOSED (hidden, lbIndex = -1) or OPEN (visible,
\* lbIndex >= 0), so that it is hidden exactly when lbIndex = -1. It opens
\* only when a photo is opened by a click on its tile, and it closes on the
\* close control, on a click on the backdrop and on Escape, and on nothing
\* else.
C19_ClosedOrOpen ==
    [][/\ LbIsClosed \/ LbIsOpen
       /\ LbIsClosed' \/ LbIsOpen'
       /\ lbHidden' = (lbIndex' = -1)
       /\ (lbHidden /\ ~lbHidden' => ev'.op = "tileClick")
       /\ (ev'.op = "tileClick" => LbIsOpen')
       /\ (~lbHidden /\ lbHidden' => ev'.op \in CloseOps)
       /\ (ev'.op \in CloseOps => LbIsClosed')]_vars

\* a photo was opened from the grid and Escape has closed the lightbox
C19_Witness ==
    /\ ev.op = "keyEscape"
    /\ LbIsClosed
    /\ lbSrc = NoPhoto
    /\ lbMeta = PositionLine(3, Len(ExampleDoc))

\* the events that call lbStep(-1) and lbStep(1)
PrevOps == {"prevClick", "keyArrowLeft"}

NextOps == {"nextClick", "keyArrowRight"}

\* the step left lbIndex, the photo displayed and the position line alone
LbSame == lbIndex' = lbIndex /\ lbSrc' = lbSrc /\ lbHidden' = lbHidden /\ lbMeta' = lbMeta

\* C20: lightbox navigation is a no-op at the boundaries. While the lightbox
\* is OPEN, prev at index 0 and next at the last index of the view list leave
\* the index and the photo displayed unchanged; prev at an index above 0 moves
\* the index by exactly -1 and next at an index below the last by exactly +1;
\* while it is CLOSED, prev, next and the arrow keys do nothing.
C20_NavigationBounded ==
    [][/\ (ev'.op \in PrevOps /\ ~lbHidden /\ lbIndex = 0 => LbSame)
       /\ (ev'.op \in NextOps /\ ~lbHidden /\ lbIndex = Len(viewPhotos) - 1 => LbSame)
       /\ (ev'.op \in PrevOps /\ ~lbHidden /\ lbIndex > 0 => lbIndex' = lbIndex - 1)
       /\ (ev'.op \in NextOps /\ ~lbHidden /\ lbIndex >= 0 /\ lbIndex < Len(viewPhotos) - 1 =>
             lbIndex' = lbIndex + 1)
       /\ (ev'.op \in PrevOps \cup NextOps /\ lbHidden => LbSame)]_vars

\* prev has just been asked for while the lightbox was open at an index above
\* 0, and the index has not moved: the view list had become shorter
C20_Witness ==
    /\ ev.op \in PrevOps
    /\ ~lbHidden
    /\ lbIndex > Len(viewPhotos)
    /\ lbMeta.k = lbIndex + 1
    /\ lbMeta.n > Len(viewPhotos)

\* the same with the index inside the view list
C20_InsideTheList ==
    [][/\ (ev'.op \in PrevOps /\ ~lbHidden /\ lbIndex = 0 => LbSame)
       /\ (ev'.op \in NextOps /\ ~lbHidden /\ lbIndex = Len(viewPhotos) - 1 => LbSame)
       /\ (ev'.op \in PrevOps /\ ~lbHidden /\ lbIndex > 0 /\ lbIndex < Len(viewPhotos) =>
             lbIndex' = lbIndex - 1 /\ lbSrc' = viewPhotos[lbIndex])
       /\ (ev'.op \in NextOps /\ ~lbHidden /\ lbIndex >= 0 /\ lbIndex < Len(viewPhotos) - 1 =>
             lbIndex' = lbIndex + 1 /\ lbSrc' = viewPhotos[lbIndex + 2])
       /\ (ev'.op \in PrevOps \cup NextOps /\ lbHidden => LbSame)]_vars

-----------------------------------------------------------------------------
(* Properties of init()'s failure paths, checked under Spec *)

FailureMessage == "Failed to load gallery data."

\* a failed photo request leaves the message and nothing else
C21_NoPartialUi ==
    [][ev'.op = "initFail" =>
         /\ statusText'.msg = FailureMessage
         /\ tiles' = <<>>
         /\ tagList' = <<>>
         /\ url' = url]_vars

\* C21: if the photo document request fails or returns a non-success status,
\* the status text becomes the load-failure message and no partial UI is
\* produced (no tiles, no tag controls, no URL rewrite); and the message is
\* shown on no other path.
C21_FailureOnlyByPhotoRequest ==
    [][/\ (ev'.op = "initFail" =>
             /\ statusText'.msg = FailureMessage
             /\ tiles' = <<>>
             /\ tagList' = <<>>
             /\ url' = url)
       /\ (statusText'.msg = FailureMessage => ev'.op = "initFail")]_vars

\* the message is shown although the photo document has been loaded
C21_Witness ==
    /\ statusText.msg = FailureMessage
    /\ ev.op = "initTagsFail"
    /\ allPhotos = ExampleDoc
    /\ pc = "failed"

-----------------------------------------------------------------------------
(* init() on photo documents with unusual tag lists *)

\* a document whose first photo names "a" twice and whose second photo is
\* tagged "constructor"
OddTagsDoc == <<1007, 1008, 1001>>

InitDocs == {ExampleDoc, EmptyDoc, OddTagsDoc}

NextInit ==
    \/ InitFail
    \/ InitTagsFail
    \/ InitLoadFrom(InitDocs)
    \/ InitApplyUrl
    \/ InitFinish

SpecInit == Init /\ [][NextInit]_vars

\* the index that lists the tags of the photos by name, each with the number
\* of photos that carry it
PhotoCountIndex(arr) ==
    LET names == SortBy(TagNamesOf(arr), StrLess)
    IN  [i \in 1..Len(names) |->
           [name |-> names[i],
            count |-> CountNum(Cardinality({k \in 1..Len(arr) :
                                              names[i] \in Range(PhotoTags(arr[k]))}))]]

\* C22: if the tag document request fails, is absent or returns a non-success
\* status, initialization still completes normally: the tag index is derived
\* by counting, for each tag, the photos carrying it across all photos, listed
\* sorted by name, and the failure is never shown to the user.
C22_TagIndexDerived ==
    [][/\ (ev'.op = "initLoad" /\ ~ev'.hit => tagCounts' = PhotoCountIndex(allPhotos'))
       /\ (pc' \in {"loaded", "applied", "ready"} => statusText'.msg # FailureMessage)]_vars

\* init() has completed on the derived index of the document with the tag
\* "constructor": the count of that tag is not a number, and "a" counts 3 for
\* two photos
C22_Witness ==
    /\ pc = "ready"
    /\ allPhotos = OddTagsDoc
    /\ tagCounts = <<[name |-> TagA, count |-> CountNum(3)],
                     [name |-> TagCtor, count |-> CountStr(1)]>>

\* the same for the documents whose photos name a tag at most once and have
\* no tag with an inherited name
C22_PlainTags ==
    [][/\ (ev'.op = "initLoad" /\ ~ev'.hit /\ allPhotos' # OddTagsDoc =>
             tagCounts' = PhotoCountIndex(allPhotos'))
       /\ (pc' \in {"loaded", "applied", "ready"} => statusText'.msg # FailureMessage)]_vars

-----------------------------------------------------------------------------
(* Filtering, sorting, rendering and opening one record with missing or
   malformed fields *)

\* what a call leaves: it threw, or it returned value
Threw == [threw |-> TRUE, value |-> <<>>]

Returned(v) == [threw |-> FALSE, value |-> v]

\* new Set(photo?.tags || []) throws for a value that is truthy and not
\* iterable
tagSetThrows(p) == TagsKind(p) = "number"

\* applyFilter([p]): hasAllTags or hasAnyTag is called when a tag is selected
filterRecord(p, selected, mode) ==
    IF Len(selected) # 0 /\ tagSetThrows(p) THEN Threw
    ELSE Returned(applyFilter(<<p>>, selected, mode))

\* sortPhotos([p], mode): parseDateTaken reads p?.exif?.dateTaken
sortRecord(p, mode) == Returned(sortPhotos(<<p>>, mode, 0))

\* one turn of render's loop: img.src = p.paths.thumb throws when paths is
\* absent; a missing thumb is the string "undefined"; img.alt = p.meta?.title ?? ""
renderRecord(p) ==
    IF PathsKind(p) = "absent" THEN Threw
    ELSE Returned([src |-> IF PathsKind(p) = "full" THEN "thumb" ELSE "undefined",
                   alt |-> IF MetaKind(p) = "titled" THEN "title" ELSE ""])

\* openLightbox on p: lbImg.src = p.paths.display throws when paths is absent,
\* (p?.tags || []).join(", ") when tags is a string or a number; the lines of
\* lbMeta are there for the fields that are there
openRecord(p) ==
    IF PathsKind(p) = "absent" THEN Threw
    ELSE IF TagsKind(p) \in {"string", "number"} THEN Threw
    ELSE Returned([src |-> IF PathsKind(p) = "full" THEN "display" ELSE "undefined",
                   dateLine |-> ExifKind(p) = "dated",
                   tagsLine |-> PhotoTags(p) # <<>>])

RecordCalls ==
    {FilterCall(sel, mode) : sel \in {<<>>, <<TagA>>}, mode \in {S_AND, S_OR}}
    \cup {SortCall(mode) : mode \in SortOptions}
    \cup {[op |-> "render", selected |-> <<>>, mode |-> <<>>],
          [op |-> "open", selected |-> <<>>, mode |-> <<>>]}

InitRecord ==
    /\ CtlLoading
    /\ url = NoQuery
    /\ RafIdle
    /\ LbClosed
    /\ PackIdle
    /\ \E p \in RecordPhotos : fnArr = <<p>>
    /\ fnCall \in RecordCalls
    /\ fnOut = <<>>
    /\ fnDone = FALSE

FilterRecord ==
    /\ ~fnDone
    /\ fnCall.op = "filter"
    /\ fnOut' = filterRecord(fnArr[1], fnCall.selected, fnCall.mode)
    /\ fnDone' = TRUE
    /\ UNCHANGED <<fnArr, fnCall>>
    /\ UNCHANGED besidesFn

SortRecord ==
    /\ ~fnDone
    /\ fnCall.op = "sort"
    /\ fnOut' = sortRecord(fnArr[1], fnCall.mode)
    /\ fnDone' = TRUE
    /\ UNCHANGED <<fnArr, fnCall>>
    /\ UNCHANGED besidesFn

RenderRecord ==
    /\ ~fnDone
    /\ fnCall.op = "render"
    /\ fnOut' = renderRecord(fnArr[1])
    /\ fnDone' = TRUE
    /\ UNCHANGED <<fnArr, fnCall>>
    /\ UNCHANGED besidesFn

OpenRecord ==
    /\ ~fnDone
    /\ fnCall.op = "open"
    /\ fnOut' = openRecord(fnArr[1])
    /\ fnDone' = TRUE
    /\ UNCHANGED <<fnArr, fnCall>>
    /\ UNCHANGED besidesFn

NextRecord ==
    \/ FilterRecord
    \/ SortRecord
    \/ RenderRecord
    \/ OpenRecord

SpecRecord == InitRecord /\ [][NextRecord]_vars

\* the fallbacks: a record without tags passes no selection, a tile without a
\* title has the empty alt text, and the lightbox omits the line of a field
\* that is not there
FallbacksUsed ==
    LET p == fnArr[1] IN
    /\ (fnCall.op = "filter" /\ fnCall.selected # <<>> /\ TagsKind(p) = "absent" =>
          fnOut.value = <<>>)
    /\ (fnCall.op = "sort" => fnOut.value = <<p>>)
    /\ (fnCall.op = "render" /\ MetaKind(p) # "titled" => fnOut.value.alt = "")
    /\ (fnCall.op = "open" /\ ExifKind(p) # "dated" => ~fnOut.value.dateLine)
    /\ (fnCall.op = "open" /\ TagsKind(p) = "absent" => ~fnOut.value.tagsLine)

\* C23: for any photo record in which tags, exif, paths.thumb, paths.display
\* or meta.title is missing or malformed, the containing paths, exif or meta
\* entry being absent included, filtering, sorting, rendering its tile and
\* opening it in the lightbox complete without throwing, with the fallbacks
\* empty tag set, omitted metadata line and empty alt text.
C23_RecordsTolerated ==
    fnDone => ~fnOut.threw /\ FallbacksUsed

\* rendering the tile of a record without paths has thrown
C23_Witness ==
    /\ fnDone
    /\ fnCall.op = "render"
    /\ PathsKind(fnArr[1]) = "absent"
    /\ TagsKind(fnArr[1]) = "array"
    /\ fnOut.threw

\* the same for the records that have a paths entry and whose tags, when
\* there, are an array
C23_WithPathsAndTagArray ==
    fnDone /\ PathsKind(fnArr[1]) # "absent" /\ TagsKind(fnArr[1]) \in {"absent", "array"} =>
        ~fnOut.threw /\ FallbacksUsed

-----------------------------------------------------------------------------
(* The first URL rewrite, checked under Spec *)

\* C24: the URL is never rewritten while init() has not yet applied the URL
\* state. The first rewrite is made by the end of init(), when selectedTags,
\* filterMode, the sort mode and page hold the values read from the URL, and
\* it writes these values: a tag list, a mode, a sort mode or a page that the
\* URL supplied is not replaced by a default.
C24_RewriteAfterApply ==
    [][/\ (pc \in {"loading", "loaded"} => url' = url)
       /\ (url' # url => pc \in {"applied", "ready"})
       /\ (pc = "applied" /\ pc' = "ready" =>
             LET read == getUrlState(url) IN
             /\ urlState = read
             /\ selectedTags' = NewSet(read.tags)
             /\ filterMode' = read.mode
             /\ page' = read.page
             /\ (read.sort \in SortOptions => sortValue' = read.sort)
             /\ url' = setUrlState(url, selectedTags', filterMode', sortValue', page')
             /\ (url.page = Param(<<"2">>) => url'.page = url.page)
             /\ (url.mode = Param(S_OR) => url'.mode = url.mode)
             /\ (url.sort \in {Param(S_date_asc), Param(S_random)} => url'.sort = url.sort)
             /\ (url.tags \in {Param(<<"a">>), Param(<<"a", ",", "b">>), Param(<<"z">>)} =>
                   url'.tags = url.tags))]_vars

\* init() has ended on ?tags=z&mode=OR&sort=random&page=3 and the URL is as
\* it was
C24_Witness ==
    /\ pc = "ready"
    /\ ev.op = "init"
    /\ url = [tags |-> Param(<<"z">>), mode |-> Param(S_OR), sort |-> Param(S_random),
              page |-> Param(<<"3">>)]
    /\ selectedTags = <<TagZ>>
    /\ filterMode = S_OR
    /\ sortValue = S_random
    /\ page = 3

-----------------------------------------------------------------------------
(* setUrlState on a query with other parameters *)

\* the longest query of the model, in parameters
MaxQuery == 3

\* a parameter of the query, as URLSearchParams holds it
Pair(key, value) == [key |-> key, value |-> value]

\* the keys setUrlState writes
StateKeys == {"tags", "mode", "sort", "page"}

QueryPairs ==
    {Pair("utm", <<"x">>), Pair("utm", <<"y">>), Pair("debug", <<>>),
     Pair("Tags", <<"a">>), Pair("tags", <<"z">>), Pair("page", <<"7">>), Pair("mode", <<"o","r">>)}

\* window.location.search, parsed
Queries == UNION {[1..n -> QueryPairs] : n \in 0..MaxQuery}

\* URLSearchParams.prototype.delete: every parameter with the key goes
spDelete(q, key) == SelectSeq(q, LAMBDA e : e.key # key)

\* URLSearchParams.prototype.set: the first parameter with the key gets the
\* value and the others with the key go; without one, the parameter is appended
spSet(q, key, value) ==
    IF \E i \in 1..Len(q) : q[i].key = key
    THEN LET first == CHOOSE i \in 1..Len(q) : q[i].key = key /\ \A j \in 1..(i - 1) : q[j].key # key
         IN  SubSeq(q, 1, first - 1) \o <<Pair(key, value)>>
             \o spDelete(SubSeq(q, first + 1, Len(q)), key)
    ELSE Append(q, Pair(key, value))

\* the variant that starts from an empty URLSearchParams
setUrlStateOn_fresh(q, selected, mode, sortv, p) ==
    LET q1 == IF Len(selected) > 0 THEN spSet(<<>>, "tags", join(selected, ",")) ELSE <<>>
        q2 == spSet(q1, "mode", mode)
        q3 == spSet(q2, "sort", sortv)
    IN  spSet(q3, "page", String(p))

\* setUrlState() on the parsed query q; sp.toString() writes the parameters
\* of sp in their order
setUrlStateOn(q, selected, mode, sortv, p) ==
    LET q1 == IF Len(selected) > 0 THEN spSet(q, "tags", join(selected, ","))
              ELSE spDelete(q, "tags")
        q2 == spSet(q1, "mode", mode)
        q3 == spSet(q2, "sort", sortv)
    IN  spSet(q3, "page", String(p))

\* a view state to write
WrittenState(selected, mode, sortv, p) ==
    [op |-> "setUrlState", selected |-> selected, mode |-> mode, sort |-> sortv, page |-> p]

\* fnArr is the query the page was opened with, fnOut the query now
InitQuery ==
    /\ CtlLoading
    /\ url = NoQuery
    /\ RafIdle
    /\ LbClosed
    /\ PackIdle
    /\ fnArr \in Queries
    /\ fnCall = NoCall
    /\ fnOut = fnArr
    /\ fnDone = FALSE

\* setUrlState() with selectedTags, filterMode, sortSelect.value and page
RewriteQuery(selected, mode, sortv, p) ==
    /\ fnOut' = setUrlStateOn(fnOut, selected, mode, sortv, p)
    /\ fnCall' = WrittenState(selected, mode, sortv, p)
    /\ fnDone' = TRUE
    /\ UNCHANGED fnArr
    /\ UNCHANGED besidesFn

\* a tag name of the photo document with a comma in it
TagComma == <<"x", ",", "y">>

NextQuery ==
    \E selected \in {<<>>, <<TagA>>, <<TagA, TagB>>, <<TagComma>>}, mode \in {S_AND, S_OR},
       sortv \in {S_date_desc, S_random}, p \in 1..2 :
        RewriteQuery(selected, mode, sortv, p)

SpecQuery == InitQuery /\ [][NextQuery]_vars

\* the parameters of q that are none of tags, mode, sort, page
OtherParams(q) == SelectSeq(q, LAMBDA e : e.key \notin StateKeys)

\* the value of the one parameter of q with the key, as a set
ValuesOf(q, key) == {q[i].value : i \in {j \in 1..Len(q) : q[j].key = key}}

\* C25: the persistence step changes only the keys tags, mode, sort and page.
\* After any number of URL rewrites every other parameter of the query the
\* page was opened with is still there, with its key and its value, as often
\* and in the order it was, and there is no other parameter; the four keys
\* carry the state written last.
C25_OtherParamsKept ==
    /\ OtherParams(fnOut) = OtherParams(fnArr)
    /\ fnDone =>
         /\ ValuesOf(fnOut, "mode") = {fnCall.mode}
         /\ ValuesOf(fnOut, "sort") = {fnCall.sort}
         /\ ValuesOf(fnOut, "page") = {String(fnCall.page)}
         /\ ValuesOf(fnOut, "tags") =
              IF fnCall.selected = <<>> THEN {} ELSE {join(fnCall.selected, ",")}

\* ?utm=x&tags=z&debug has been rewritten: utm and debug are where they were
C25_Witness ==
    /\ fnDone
    /\ fnArr = <<Pair("utm", <<"x">>), Pair("tags", <<"z">>), Pair("debug", <<>>)>>
    /\ fnCall = WrittenState(<<TagA, TagB>>, S_OR, S_random, 2)
    /\ fnOut = <<Pair("utm", <<"x">>), Pair("tags", <<"a", ",", "b">>), Pair("debug", <<>>),
                 Pair("mode", S_OR), Pair("sort", S_random), Pair("page", <<"2">>)>>

-----------------------------------------------------------------------------
(* Touch gestures on the lightbox, checked under SpecLightbox *)

\* C26: while the lightbox is open a horizontal swipe maps to prev/next: with
\* a photo on either side of the one displayed, a swipe whose horizontal
\* travel exceeds the threshold and the vertical travel moves the index to a
\* neighbour; every other gesture changes neither the index nor whether the
\* lightbox is open.
C26_SwipeNavigates ==
    [][/\ (/\ ev'.op \in HorizontalSwipes
           /\ ~lbHidden
           /\ lbIndex > 0
           /\ lbIndex < Len(viewPhotos) - 1
           => lbIndex' \in {lbIndex - 1, lbIndex + 1})
       /\ (ev'.op \in Gestures \ HorizontalSwipes =>
             lbIndex' = lbIndex /\ lbHidden' = lbHidden)]_vars

\* the third of five photos is displayed and a swipe to the left has ended:
\* the third photo is still the one displayed
C26_Witness ==
    /\ ev.op = "swipeLeft"
    /\ ~lbHidden
    /\ Len(viewPhotos) = 5
    /\ lbIndex = 2
    /\ lbSrc = viewPhotos[3]
    /\ lbMeta = PositionLine(3, 5)

\* no gesture changes the index, the photo displayed or whether the lightbox is
\* open
C26_NoGestureActs == [][ev'.op \in Gestures => LbSame]_vars

-----------------------------------------------------------------------------
(* The position findPosition chooses, checked under SpecPack *)

\* a turn of the loop over the tiles is being taken
Placing == lpc = "packing" /\ Len(rects') = Len(rects) + 1

\* the tile the turn has placed
Placed == rects'[Len(rects')]

\* the segments of sky under the span of width w that begins at segment i
SpanSegs(sky, i, w) == {j \in i..Len(sky) : sky[j].x < sky[i].x + w}

\* the highest of them
SpanY(sky, i, w) ==
    LET S == SpanSegs(sky, i, w)
    IN  sky[CHOOSE j \in S : \A k \in S : sky[k].y <= sky[j].y].y

\* the span lies inside the container and the segments under it lie side by
\* side, to within half a pixel, as far as its end
IsCandidate(sky, width, i, w) ==
    LET S    == SpanSegs(sky, i, w)
        last == CHOOSE j \in S : \A k \in S : k <= j
    IN  /\ sky[i].x + w <= width
        /\ \A j \in S \ {i} : sky[j].x <= sky[j - 1].x + sky[j - 1].w + HalfPx
        /\ sky[last].x + sky[last].w >= sky[i].x + w

Candidates(sky, width, w) == {i \in 1..Len(sky) : IsCandidate(sky, width, i, w)}

\* C27: for each tile findPosition returns, among the candidates (x the
\* left edge of a skyline segment, the span of the inflated width inside the
\* container and under contiguous skyline, y the highest skyline over the
\* span), the one of the smallest y, and among those of equal y the one of
\* the smallest x; the first tile of a pass is placed at (0, 0).
C27_LowestLeftmost ==
    [][Placing =>
        LET C == Candidates(skyline, cw, Placed.packW)
        IN  /\ C # {}
            /\ \E i \in C :
                  /\ Placed.left = skyline[i].x
                  /\ Placed.top = SpanY(skyline, i, Placed.packW)
                  /\ \A k \in C :
                        /\ Placed.top <= SpanY(skyline, k, Placed.packW)
                        /\ (Placed.top = SpanY(skyline, k, Placed.packW) =>
                              Placed.left <= skyline[k].x)
            /\ (rects = <<>> => Placed.left = 0 /\ Placed.top = 0)]_vars

\* what findPosition does in passes of up to four tiles: heights less than
\* half a pixel apart count as equal. The candidate returned is lower than
\* every candidate to its left, and no candidate to its right is lower than it
\* by half a pixel or more. (From the fifth tile on, seams of the skyline that
\* rounding has opened also move the end of a span by a unit.)
C27_LowestWithinHalfPx ==
    [][Placing =>
        LET C == Candidates(skyline, cw, Placed.packW)
        IN  /\ C # {}
            /\ \E i \in C :
                  /\ Placed.left = skyline[i].x
                  /\ Placed.top = SpanY(skyline, i, Placed.packW)
                  /\ \A k \in C :
                        /\ (skyline[k].x < Placed.left =>
                              SpanY(skyline, k, Placed.packW) > Placed.top)
                        /\ (skyline[k].x > Placed.left =>
                              SpanY(skyline, k, Placed.packW) > Placed.top - HalfPx)
            /\ (rects = <<>> => Placed.left = 0 /\ Placed.top = 0)]_vars

\* four tiles in 1000 px: 3:2 at the left, the tall strip beside it, 301:200
\* at the right, less than half a pixel lower than the first; the fourth tile
\* is on the first although the place on the third is lower
C27_Witness ==
    /\ lpc = "packing"
    /\ cw = Px(1000)
    /\ passTiles = <<Ar(3, 2), Ar(1, 4), Ar(301, 200), Ar(3, 2)>>
    /\ Len(rects) = 4
    /\ rects[4].left = 0
    /\ rects[4].top = rects[1].packH
    /\ rects[3].top = 0
    /\ rects[3].packH < rects[1].packH
    /\ rects[3].left + rects[4].packW <= cw

-----------------------------------------------------------------------------
(* The fallback of the placement loop, checked under SpecPack *)

-----------------------------------------------------------------------------
(* Image loads and layout passes, checked under SpecGridFair *)

\* frames keep firing: a callback that has been requested is run
SpecGridFair == SpecGrid /\ WF_vars(AnimationFrame)

\* the tile at place k has learned its aspect ratio from its image
LearnedAr(k) == k <= Len(tiles) /\ tiles[k].loaded /\ tiles[k].ar # PlaceholderAr

\* the last layout pass read the aspect ratio the tile at place k has now
LaidOutWithAr(k) == k <= Len(passTiles) /\ k <= Len(tiles) /\ passTiles[k] = tiles[k].ar

\* C29: whenever the aspect ratio of a tile of the grid is updated by its
\* image load, a layout pass that uses the updated aspect ratio eventually
\* runs (frames keep firing, container of 200 px or more), also when the
\* update arrives while a layout request is already pending.
C29_LoadLeadsToLayout == \A k \in LoadTiles : LearnedAr(k) ~> LaidOutWithAr(k)

\* the image of the first tile has just loaded while the request made by
\* render was pending, and no pass has read its aspect ratio yet
C29_Witness ==
    /\ ev.op = "imageLoad"
    /\ LearnedAr(1)
    /\ ~LaidOutWithAr(1)
    /\ layoutRaf # 0
    /\ rafQueue # <<>>
    /\ rafCalls >= 2

-----------------------------------------------------------------------------
(* Image loads of tiles that are no longer in the grid *)

\* the variant whose listener looks the tile up in the grid by its index
LateLoad_byIndex(i, size) ==
    /\ pc = "ready"
    /\ i \in detached
    /\ detached' = detached \ {i}
    /\ IF size.w # 0 /\ size.h # 0
       THEN /\ tiles' = IF i + 1 <= Len(tiles)
                        THEN [tiles EXCEPT ![i + 1].ar = Ar(size.w, size.h)]
                        ELSE tiles
            /\ ScheduleLayout
       ELSE UNCHANGED <<tiles, rafVars>>
    /\ ev' = Event("lateLoad", FALSE)
    /\ UNCHANGED <<pc, url, allPhotos, tagList, tagCounts, checked, selectedTags, filterMode,
                   sortValue, page, viewPhotos, renderedCount, isInitializing,
                   statusText, loadMoreShown, urlState, viewShared>>
    /\ UNCHANGED besidesCtl

\* the "load" listener of the image of a tile that rebuildView has removed
\* from the grid, made for index i: the listener writes dataset.ar of its own
\* tile, which is in no document, and calls scheduleLayout()
LateLoad(i, size) ==
    /\ pc = "ready"
    /\ i \in detached
    /\ detached' = detached \ {i}
    /\ IF size.w # 0 /\ size.h # 0
       THEN ScheduleLayout
       ELSE UNCHANGED rafVars
    /\ ev' = Event("lateLoad", FALSE)
    /\ UNCHANGED <<pc, url, allPhotos, tagList, tagCounts, checked, selectedTags, filterMode,
                   sortValue, page, viewPhotos, tiles, renderedCount, isInitializing,
                   statusText, loadMoreShown, urlState, viewShared>>
    /\ UNCHANGED besidesCtl

\* init() has run on the example document
InitLate ==
    /\ ReadyOn(ExampleDoc)
    /\ LbClosed
    /\ PackIdle
    /\ FnIdle

\* one change of each kind: of the filter, of the match mode, of the sort
NextLate ==
    \/ ToggleTag(TagA)
    \/ \E mode \in {S_AND, S_OR} : SetMatchMode(mode)
    \/ \E option \in {S_date_desc, S_date_asc} : SetSortMode(option)
    \/ \E k \in LoadTiles, size \in NaturalSizes : ImageLoad(k, size)
    \/ \E i \in detached, size \in NaturalSizes : LateLoad(i, size)
    \/ AnimationFrame

SpecLate == InitLate /\ [][NextLate]_vars

\* C30: the load of an image whose tile a filter, mode or sort change has
\* removed from the grid changes no view state (selected tags, match mode,
\* sort mode, page, view list, URL), no tile of the grid and no aspect ratio
\* of one; and a layout pass reads the aspect ratios of the tiles of the grid
\* and nothing else, so that the positions and sizes the next pass assigns are
\* those it would assign without the late load.
C30_LateLoadIgnored ==
    [][/\ (ev'.op = "lateLoad" =>
             /\ selectedTags' = selectedTags
             /\ filterMode' = filterMode
             /\ sortValue' = sortValue
             /\ page' = page
             /\ viewPhotos' = viewPhotos
             /\ url' = url
             /\ statusText' = statusText
             /\ tiles' = tiles
             /\ ArsOf(tiles') = ArsOf(tiles))
       /\ (ev'.op = "frame" => passTiles' = ArsOf(tiles))]_vars

\* the first tile of the grid has learned its aspect ratio, the image of a tile
\* of the same index that a rebuild had removed has just loaded while no
\* request was pending, and a pass is now requested
C30_Witness ==
    /\ ev.op = "lateLoad"
    /\ 0 \notin detached
    /\ Len(tiles) >= 2
    /\ tiles[1].loaded
    /\ tiles[1].ar = Ar(2, 3)
    /\ passTiles = ArsOf(tiles)
    /\ layoutRaf # 0
    /\ rafCalls = 1

-----------------------------------------------------------------------------
(* The sentinel callback, checked under Spec *)

\* C31: a sentinel callback with the sentinel not intersecting, or with
\* min(total, page * PAGE_SIZE) already equal to total, leaves page, the
\* tiles, the view list and the URL unchanged; any other adds exactly 1 to page
\* and renders: the grid then holds min(total, page * PAGE_SIZE) tiles, the
\* ones it held before and the newly revealed ones after them.
C31_SentinelNoOpOrAdvance ==
    [][ev'.op = "sentinel" =>
         LET total == Len(viewPhotos)
             showing == Min(total, page * PAGE_SIZE)
         IN  IF ~ev'.hit \/ showing = total
             THEN /\ page' = page
                  /\ tiles' = tiles
                  /\ viewPhotos' = viewPhotos
                  /\ url' = url
                  /\ renderedCount' = renderedCount
             ELSE /\ page' = page + 1
                  /\ viewPhotos' = viewPhotos
                  /\ Len(tiles') = Min(total, page' * PAGE_SIZE)
                  /\ renderedCount' = Len(tiles')
                  /\ \A k \in 1..Len(tiles) : tiles'[k].photo = tiles[k].photo
                  /\ \A k \in (Len(tiles) + 1)..Len(tiles') :
                        tiles'[k].fresh /\ tiles'[k].photo = viewPhotos[k]
                  /\ statusText'.k = Len(tiles')
                  /\ url'.page = Param(String(page'))]_vars

\* the sentinel has come into view with all 130 photos of three pages shown:
\* nothing has changed
C31_Witness ==
    /\ ev = Event("sentinel", TRUE)
    /\ page = 3
    /\ Len(viewPhotos) = NPhotos
    /\ Len(tiles) = NPhotos
    /\ renderedCount = NPhotos
    /\ url.page = Param(<<"3">>)

-----------------------------------------------------------------------------
(* The lightbox and the view list, checked under SpecLightbox *)

\* C32: whenever the lightbox is open, lbIndex is an index of the current
\* view list, and the photo and the position / total line displayed are those
\* of the item of the view list at lbIndex, whatever tag, mode and sort
\* changes and page advances have come between the lightbox events.
C32_LightboxFollowsView ==
    ~lbHidden =>
        /\ 0 <= lbIndex
        /\ lbIndex < Len(viewPhotos)
        /\ lbSrc = viewPhotos[lbIndex + 1]
        /\ lbMeta = PositionLine(lbIndex + 1, Len(viewPhotos))

\* the lightbox was opened on the fifth of five photos and a tag has then been
\* selected: the view list has two photos, the lightbox still shows "5 / 5"
C32_Witness ==
    /\ ev.op = "toggleTag"
    /\ ~lbHidden
    /\ lbIndex = 4
    /\ Len(viewPhotos) < 5
    /\ lbMeta = PositionLine(5, 5)
    /\ lbSrc \notin Range(viewPhotos)

\* a step that moves lbIndex to an index displays the item of the view list at
\* that index
C32_MoveShowsViewItem ==
    [][(lbIndex' # lbIndex /\ lbIndex' >= 0) =>
         /\ lbIndex' < Len(viewPhotos')
         /\ lbSrc' = viewPhotos'[lbIndex' + 1]
         /\ lbMeta' = PositionLine(lbIndex' + 1, Len(viewPhotos'))]_vars

-----------------------------------------------------------------------------
(* Writing the URL and reading it back *)

\* what getUrlState reads from the URL is the view state
ReadsBack(u) ==
    LET read == getUrlState(u)
    IN  /\ Range(read.tags) = Range(selectedTags)
        /\ read.mode = filterMode
        /\ read.sort = sortValue
        /\ read.page = page

\* C33: for every view state reachable after initialization, reading the URL
\* written by the persistence step with the parser of init() gives the same
\* selected tags (as a set), the same match mode, the same sort mode and the
\* same page.
C33_UrlRoundTrip ==
    pc = "ready" => ReadsBack(setUrlState(url, selectedTags, filterMode, sortValue, page))

\* the page was opened with ?sort=foo: the select holds "", sort= is written,
\* and the parser reads date_desc
C33_Witness ==
    /\ pc = "ready"
    /\ sortValue = <<>>
    /\ url.sort = Param(<<>>)
    /\ getUrlState(url).sort = S_date_desc
    /\ url = setUrlState(url, selectedTags, filterMode, sortValue, page)

\* with one of the three options in the select, the URL reads back as the view
\* state
C33_RoundTripOfOptions ==
    (pc = "ready" /\ sortValue \in SortOptions) =>
        ReadsBack(setUrlState(url, selectedTags, filterMode, sortValue, page))

\* sp.get(key) on a parsed query: the value of the first parameter with the key
ParamOf(q, key) ==
    IF \E i \in 1..Len(q) : q[i].key = key
    THEN Param(q[CHOOSE i \in 1..Len(q) :
                    q[i].key = key /\ \A j \in 1..(i - 1) : q[j].key # key].value)
    ELSE NoParam

\* a selected tag whose name has a comma is written as it is and read back as
\* two tags (checked under SpecQuery)
C33_CommaTagReadsAsTwo ==
    (fnDone /\ fnCall.selected = <<TagComma>>) =>
        getUrlState([tags |-> ParamOf(fnOut, "tags"), mode |-> ParamOf(fnOut, "mode"),
                     sort |-> ParamOf(fnOut, "sort"), page |-> ParamOf(fnOut, "page")]).tags
          = <<<<"x">>, <<"y">>>>

-----------------------------------------------------------------------------
(* Tag controls and selectedTags, checked under Spec *)

\* the step flips the membership of exactly one tag in selectedTags
FlipsOneTag ==
    \E t \in Range(tagList) :
        /\ (t \in Range(selectedTags')) = (t \notin Range(selectedTags))
        /\ Range(selectedTags') \ {t} = Range(selectedTags) \ {t}

\* C34: after initialization and after every transition the set of tag names
\* whose control is checked equals selectedTags, so that operating a tag
\* control flips the membership of exactly that tag in selectedTags and leaves
\* that of every other tag unchanged.
C34_ControlsShowSelection ==
    [][/\ (pc' = "ready" => checked' = Range(selectedTags'))
       /\ (ev'.op = "toggleTag" => FlipsOneTag)]_vars

\* the page was opened with ?tags=z on the example document, which has no tag
\* z: z is selected, no photo passes, and no control is checked
C34_Witness ==
    /\ pc = "ready"
    /\ ev.op = "init"
    /\ allPhotos = ExampleDoc
    /\ url.tags = Param(<<"z">>)
    /\ selectedTags = <<TagZ>>
    /\ TagZ \notin Range(tagList)
    /\ checked = {}
    /\ viewPhotos = <<>>

\* the checked controls are the selected tags that have a control, and
\* operating a control flips exactly its tag
C34_ControlsOfSelectedTags ==
    [][/\ (pc' = "ready" => checked' = Range(selectedTags') \cap Range(tagList'))
       /\ (ev'.op = "toggleTag" => FlipsOneTag)]_vars

-----------------------------------------------------------------------------
(* Passes over a growing list of tiles, checked under SpecPack *)

\* C35: in a container of fixed width the rectangle the packer gives tile k
\* depends only on the aspect ratios of the tiles up to k: when tiles have been
\* appended to the list, the next pass gives every earlier tile the rectangle
\* the pass before gave it.
C35_AppendKeepsEarlierRects ==
    [][(Placing /\ Len(rects') <= Len(prevRects)) =>
          Placed = prevRects[Len(rects')]]_vars

\* the second pass in 1000 px, over the three tiles of the first and a fourth,
\* has ended: the first three are where they were, and the second of them is
\* not in the row of the first
C35_Witness ==
    /\ lpc = "done"
    /\ cw = Px(1000)
    /\ Len(prevRects) = 3
    /\ Len(rects) = 4
    /\ SubSeq(rects, 1, 3) = prevRects
    /\ rects[2].left > 0
    /\ rects[3].top > 0

-----------------------------------------------------------------------------
(* Clicks on tiles after view changes and page advances *)

\* init() has run on the large document
InitTiles ==
    /\ ReadyOn(LargeDoc)
    /\ LbClosed
    /\ PackIdle
    /\ FnIdle

NextTiles ==
    \/ ToggleTag(TagA)
    \/ \E mode \in {S_AND, S_OR} : SetMatchMode(mode)
    \/ \E option \in SortOptions : SetSortMode(option)
    \/ \E hit \in BOOLEAN : SentinelCallback(hit)
    \/ LoadMoreClick
    \/ \E k \in LoadTiles : TileClick(k)
    \/ CloseClick

SpecTiles == InitTiles /\ [][NextTiles]_vars

\* C36: after any sequence of filter, mode, sort and pagination transitions
\* every tile of the grid displays the item of the current view list at its
\* index, and a click on a tile opens the lightbox on exactly that photo.
C36_ClickOpensTilePhoto ==
    [][/\ \A k \in 1..Len(tiles') :
             /\ tiles'[k].index = k - 1
             /\ tiles'[k].photo = viewPhotos'[k]
       /\ (ev'.op = "tileClick" =>
             /\ ~lbHidden'
             /\ \E k \in LoadTiles :
                   /\ k <= Len(tiles)
                   /\ lbIndex' = tiles[k].index
                   /\ lbSrc' = tiles[k].photo
                   /\ lbMeta' = PositionLine(k, Len(viewPhotos)))]_vars

\* after a random sort and a page advance the first tile of page two has been
\* clicked: the lightbox shows the photo of that tile
C36_Witness ==
    /\ ev.op = "tileClick"
    /\ sortValue = S_random
    /\ page = 2
    /\ viewPhotos # allPhotos
    /\ ~lbHidden
    /\ lbIndex = PAGE_SIZE
    /\ lbSrc = tiles[PAGE_SIZE + 1].photo
    /\ lbSrc = viewPhotos[PAGE_SIZE + 1]

-----------------------------------------------------------------------------
(* The size of the skyline, checked under SpecPack *)

\* C37: after every addRect no two adjacent skyline segments have the same
\* height, and the skyline has at most one segment more than there are tiles
\* placed so far in the pass.
C37_SkylineMergedAndSmall ==
    skyline # <<>> =>
        /\ \A i \in 1..(Len(skyline) - 1) : skyline[i].y # skyline[i + 1].y
        /\ Len(skyline) <= Len(rects) + 1

\* two tiles of the same height lie side by side in 1000 px and a third has
\* been placed: their two segments are one, and the skyline has three segments
C37_Witness ==
    /\ lpc = "packing"
    /\ cw = Px(1000)
    /\ Len(rects) = 3
    /\ rects[1].top = 0
    /\ rects[2].top = 0
    /\ rects[1].packH = rects[2].packH
    /\ rects[3].top = 0
    /\ Len(skyline) = 3
    /\ skyline[1].w = rects[1].packW + rects[2].packW


-----------------------------------------------------------------------------
(* init() of the variant in src/unnamed/part_000. The variant has no
   justified layout: its render() is that of app.js without the placeholder
   aspect ratio and the image "load" listener, so no layout pass is scheduled
   and no tile waits for a load event *)

\* const urlState = getUrlState() and the four "Apply" blocks of the variant
VariantApplyUrl ==
    /\ pc = "loaded"
    /\ urlState' = getUrlState(url)
    /\ sortValue' = IF urlState'.sort # <<>> THEN SelectValue(urlState'.sort) ELSE sortValue
    /\ filterMode' = urlState'.mode
    /\ selectedTags' = NewSet(urlState'.tags)
    /\ checked' = {t \in Range(tagList) : t \in Range(selectedTags')}
    /\ page' = urlState'.page
    /\ pc' = "applied"
    /\ ev' = Event("variantApply", FALSE)
    /\ UNCHANGED <<url, allPhotos, tagList, tagCounts, viewPhotos, tiles, detached, renderedCount,
                   isInitializing, statusText, loadMoreShown, viewShared>>
    /\ UNCHANGED rafVars
    /\ UNCHANGED besidesCtl

\* the rest of the variant's init(): isInitializing = false;
\* rebuildView({ preservePage: true }); setUrlState(); the handlers are
\* installed; and, as the last statement, rebuildView() once more, without
\* the option. Each rebuildView empties the grid and renders from the first
\* tile, so the state left is that of the last call; the URL is written by
\* the first rebuildView, by setUrlState() and by the last rebuildView
VariantFinish ==
    /\ pc = "applied"
    /\ isInitializing' = FALSE
    /\ UNCHANGED <<tagList, tagCounts, checked, selectedTags, filterMode, sortValue>>
    /\ urlState' = NoUrlState
    /\ LET page1 == rebuildPage(TRUE, page)
           url1 == setUrlState(url, selectedTags, filterMode, sortValue, page1)
           url2 == setUrlState(url1, selectedTags, filterMode, sortValue, page1)
       IN  /\ page' = rebuildPage(FALSE, page1)
           /\ url' = setUrlState(url2, selectedTags, filterMode, sortValue, page')
    /\ \E seed \in Seeds(sortValue) :
          viewPhotos' = sortPhotos(applyFilter(allPhotos, selectedTags, filterMode),
                                   sortValue, seed)
    /\ viewShared' = sortShares(filterShares(selectedTags))
    /\ allPhotos' = IF viewShared' THEN viewPhotos' ELSE allPhotos
    /\ LET r == render(viewPhotos', page', 0, <<>>)
       IN  /\ tiles' = r.tiles
           /\ renderedCount' = r.renderedCount
           /\ statusText' = r.status
           /\ loadMoreShown' = r.loadMore
    /\ pc' = "ready"
    /\ ev' = Event("variantInit", FALSE)
    /\ UNCHANGED detached
    /\ UNCHANGED rafVars
    /\ UNCHANGED besidesCtl

NextVariant ==
    \/ InitFail
    \/ InitLoad
    \/ VariantApplyUrl
    \/ VariantFinish

SpecVariant == Init /\ [][NextVariant]_vars

\* C38: in the variant in src/unnamed/part_000, when init has finished, page
\* equals the page value read from the URL (default 1, clamped to >= 1),
\* min(total, page * PAGE_SIZE) tiles are rendered, and the URL still carries
\* that page value.
C38_VariantInitKeepsPage ==
    [][ev'.op = "variantInit" =>
         /\ page' = urlState.page
         /\ Len(tiles') = Min(Len(viewPhotos'), page' * PAGE_SIZE)
         /\ getUrlState(url').page = urlState.page]_vars

\* the page opened with ?page=2 on the 130 photos: init has finished with
\* page 1, the first 60 tiles and page=1 in the URL
C38_Witness ==
    /\ ev.op = "variantInit"
    /\ pc = "ready"
    /\ allPhotos = LargeDoc
    /\ selectedTags = <<>>
    /\ page = 1
    /\ Len(tiles) = PAGE_SIZE
    /\ Len(viewPhotos) = NPhotos
    /\ url.page = Param(<<"1">>)

\* what the variant's init leaves: the first page, whatever the URL said
C38_VariantInitShowsFirstPage ==
    [][ev'.op = "variantInit" =>
         /\ page' = 1
         /\ Len(tiles') = Min(Len(viewPhotos'), PAGE_SIZE)
         /\ url'.page = Param(<<"1">>)]_vars

\* the variant's init keeps the page of a URL whose page reads as 1
C38_VariantInitKeepsFirstPage ==
    [][ev'.op = "variantInit" /\ urlState.page = 1 =>
         /\ page' = urlState.page
         /\ Len(tiles') = Min(Len(viewPhotos'), page' * PAGE_SIZE)
         /\ getUrlState(url').page = urlState.page]_vars


-----------------------------------------------------------------------------
(* layoutJustified of src/js/app.js

   The numbers of the pass are exact fractions in lowest terms, of the shape
   of Ar(n, d): what is stated of a row holds of the program up to the
   rounding of its divisions and products, which is below 10^-12 px.
   The fallback of --gap (8) and the least container width (200) are those
   of the collage packer: gap and MinContainer *)

RECURSIVE GCD(_, _)
GCD(a, b) == IF b = 0 THEN a ELSE GCD(b, a % b)

\* the fraction n / d, n >= 0 and d > 0
Q(n, d) == LET g == GCD(n, d) IN Ar(n \div g, d \div g)

QPlus(a, b) ==
    LET g == GCD(a.den, b.den)
    IN  Q(a.num * (b.den \div g) + b.num * (a.den \div g), (a.den \div g) * b.den)

\* a - b, for a >= b
QMinus(a, b) ==
    LET g == GCD(a.den, b.den)
    IN  Q(a.num * (b.den \div g) - b.num * (a.den \div g), (a.den \div g) * b.den)

QTimes(a, b) ==
    LET g1 == GCD(a.num, b.den)
        g2 == GCD(b.num, a.den)
    IN  Q((a.num \div g1) * (b.num \div g2), (a.den \div g2) * (b.den \div g1))

\* a / b, for b > 0
QOver(a, b) == QTimes(a, Ar(b.den, b.num))

QLess(a, b) == a.num * b.den < b.num * a.den

QMax(a, b) == IF QLess(a, b) THEN b ELSE a

\* the fallback of --rowh
targetH == 260

\* the least width flushRow gives a tile
MinTileWidth == 80

\* aspect ratios of the .jtile elements: the 3:2 placeholder, a 9:16
\* portrait, a panorama, and one below the 0.05 floor
JustifiedRatios == {Ar(3, 2), Ar(9, 16), Ar(4, 1), Ar(1, 25)}

JustifiedLists == UNION {[1..n -> JustifiedRatios] : n \in 0..MaxTiles}

\* the style flushRow writes to a tile; row is the index of the first tile of
\* its row and justify the argument of the flushRow that wrote it (history)
TileStyle(w, h, row, justify) == [width |-> w, height |-> h, row |-> row, justify |-> justify]

\* a tile flushRow has not reached
NoStyle == TileStyle(Ar(0, 1), Ar(0, 1), 0, FALSE)

\* flushRow(justify) on the tiles ts in a container cwPx wide; s holds let row,
\* let sumAR and the styles written so far
flushRow(s, ts, cwPx, justify) ==
    IF s.row = <<>> THEN s
    ELSE LET availableW == QMinus(cwPx, Q(gap * (Len(s.row) - 1), 1))
             h == IF justify THEN QOver(availableW, s.sumAR) ELSE Q(targetH, 1)
         IN  [row |-> <<>>,
              sumAR |-> Q(0, 1),
              styles |-> [k \in DOMAIN s.styles |->
                            IF k \in Range(s.row)
                            THEN TileStyle(QMax(Q(MinTileWidth, 1), QTimes(ts[k], h)), h,
                                           s.row[1], justify)
                            ELSE s.styles[k]]]

\* Number.isFinite(ar) && ar > 0.05 ? ar : 1
safeAR(ar) == IF 20 * ar.num > ar.den THEN ar ELSE Q(1, 1)

\* the loop over the tiles from tile i on, and the flushRow(false) after it
RECURSIVE RowLoop(_, _, _, _)
RowLoop(s, ts, cwPx, i) ==
    IF i > Len(ts) THEN flushRow(s, ts, cwPx, FALSE)
    ELSE LET s1 == [s EXCEPT !.row = Append(@, i), !.sumAR = QPlus(@, safeAR(ts[i]))]
             predictedW == QPlus(QTimes(s1.sumAR, Q(targetH, 1)),
                                 Q(gap * (Len(s1.row) - 1), 1))
         IN  IF ~QLess(predictedW, QTimes(cwPx, Q(98, 100)))
             THEN RowLoop(flushRow(s1, ts, cwPx, TRUE), ts, cwPx, i + 1)
             ELSE RowLoop(s1, ts, cwPx, i + 1)

\* the styles of the tiles after layoutJustified, past its two early returns
layoutJustified(ts, width) ==
    RowLoop([row |-> <<>>, sumAR |-> Q(0, 1), styles |-> [k \in DOMAIN ts |-> NoStyle]],
            ts, Q(width, 1), 1).styles

\* the grid has no .jtile: the pass returns
JustifiedEmpty ==
    /\ lpc = "idle"
    /\ \E width \in Widths : cw' = Px(width)
    /\ passTiles' = <<>>
    /\ lpc' = "returned"
    /\ UNCHANGED <<skyline, rects, prevRects, maxBottom, gridHeight>>
    /\ UNCHANGED besidesPack

\* the container is narrower than 200 px: the pass returns
JustifiedSkip ==
    /\ lpc = "idle"
    /\ \E ts \in JustifiedLists \ {<<>>}, width \in Widths :
          /\ width < MinContainer
          /\ passTiles' = ts
          /\ cw' = Px(width)
    /\ lpc' = "returned"
    /\ UNCHANGED <<skyline, rects, prevRects, maxBottom, gridHeight>>
    /\ UNCHANGED besidesPack

\* the pass sizes every tile
JustifiedPass ==
    /\ lpc = "idle"
    /\ \E ts \in JustifiedLists \ {<<>>}, width \in Widths :
          /\ ~(width < MinContainer)
          /\ passTiles' = ts
          /\ cw' = Px(width)
          /\ rects' = layoutJustified(ts, width)
    /\ lpc' = "justified"
    /\ UNCHANGED <<skyline, prevRects, maxBottom, gridHeight>>
    /\ UNCHANGED besidesPack

NextJustified ==
    \/ JustifiedEmpty
    \/ JustifiedSkip
    \/ JustifiedPass

SpecJustified == InitPack /\ [][NextJustified]_vars

\* the tiles of the row that begins at tile r
RowOf(r) == {k \in DOMAIN rects : rects[k].row = r}

\* the first tiles of the rows flushed with justification
JustifiedRows == {r \in DOMAIN rects : rects[r].row = r /\ rects[r].justify}

RECURSIVE WidthFrom(_, _)
WidthFrom(r, k) ==
    IF k > Len(rects) \/ rects[k].row # r THEN Q(0, 1)
    ELSE QPlus(rects[k].width, WidthFrom(r, k + 1))

\* the sum of the widths of the row's tiles plus the gaps between them
RowWidth(r) == QPlus(WidthFrom(r, r), Q(gap * (Cardinality(RowOf(r)) - 1), 1))

OneHeight(r) == \A k \in RowOf(r) : rects[k].height = rects[r].height

\* C39: in the justified-grid layout of src/js/app.js, every row flushed with
\* justification fills the container width exactly: all its tiles get the
\* same height, and the sum of its tile widths plus gap * (number of tiles in
\* the row - 1) equals the container's inner width, for every list of tile
\* aspect ratios and every container width >= 200.
C39_JustifiedRowFillsWidth ==
    lpc = "justified" =>
        \A r \in JustifiedRows : OneHeight(r) /\ RowWidth(r) = Q(cw, Unit)

\* a 9:16 portrait, two 3:2 tiles and a panorama in a container of 1000 px:
\* one justified row about 129 px high, in which the portrait gets 80 px
C39_Witness ==
    /\ lpc = "justified"
    /\ cw = Px(1000)
    /\ passTiles = <<Ar(9, 16), Ar(3, 2), Ar(3, 2), Ar(4, 1)>>
    /\ JustifiedRows = {1}
    /\ RowOf(1) = 1..4
    /\ rects[1].width = Q(MinTileWidth, 1)
    /\ QLess(Q(cw, Unit), RowWidth(1))

\* the tiles of a row have one height, justified or not
C39_RowsOfOneHeight ==
    lpc = "justified" =>
        \A r \in DOMAIN rects : rects[r].row = r => OneHeight(r)

\* tile k got the width ar * h, from the aspect ratio the row was built with
Unclamped(k) ==
    /\ safeAR(passTiles[k]) = passTiles[k]
    /\ ~QLess(QTimes(passTiles[k], rects[k].height), Q(MinTileWidth, 1))

\* a justified row fills the width when none of its tiles is widened to
\* 80 px and none is below the 0.05 floor
C39_UnclampedRowFillsWidth ==
    lpc = "justified" =>
        \A r \in JustifiedRows :
            (\A k \in RowOf(r) : Unclamped(k)) => RowWidth(r) = Q(cw, Unit)

\* a justified row none of whose tiles is widened: three 3:2 tiles in a
\* container of 1000 px
C39_UnclampedWitness ==
    /\ lpc = "justified"
    /\ cw = Px(1000)
    /\ passTiles = <<Ar(3, 2), Ar(3, 2), Ar(3, 2)>>
    /\ JustifiedRows = {1}
    /\ RowOf(1) = 1..3
    /\ \A k \in 1..3 : Unclamped(k)
    /\ RowWidth(1) = Q(cw, Unit)

====
